---- MODULE Spec2Model ----
(***************************************************************************)
(* Device health status engine of openwisp-monitoring                      *)
(* (openwisp_monitoring/device/base/models.py): the DeviceMonitoring       *)
(* status record, the threshold_crossed receiver that decides the status   *)
(* from metric health, update_status with its health_status_changed        *)
(* signal, the availability recorder that appends up/down points to the   *)
(* time-series store, and the availability functions that rebuild a        *)
(* device's up/down timeline and uptime percentage from those points.      *)
(***************************************************************************)
EXTENDS Integers, Sequences, FiniteSets, TLC

\* ---------------------------------------------------------------- bounds
\* health_status_changed signals sent before the model stops sending more
\* (the signal counter is unbounded in the program)
MaxSent == 3

\* instants run from 0 to MaxTick (the clock is unbounded in the program)
MaxTick == 4

\* device_status points of one device held by the time-series store
MaxPoints == 3

\* wan_link_status points the store holds at most
MaxWan == 3

\* ------------------------------------------------------------ vocabulary
Devices == {"d1"}

\* a threshold_crossed target that is not a Device instance
NoDevice == "other"

\* AbstractDeviceMonitoring.STATUS; the StatusField default is the first choice
STATUS == {"unknown", "ok", "problem", "critical", "deactivated"}

DefaultStatus == "unknown"

\* no DeviceMonitoring row exists for the device
NoRecord == "norecord"

UP_STATUSES == {"ok", "problem"}

\* Metric rows are identified by (key, field_name)
Metrics ==
    { [key |-> "ping", field_name |-> "reachable"],
      [key |-> "ping", field_name |-> "rtt"],
      [key |-> "cpu",  field_name |-> "cpu_usage"] }

\* the metrics attached to each device (generic relation object_id = device)
MetricsOf(d) ==
    IF d \in Devices THEN Metrics ELSE {}

\* the metrics of a device evaluated on its own, to exercise the decision
\* with several non-critical metrics at once
DecideMetrics ==
    Metrics \cup { [key |-> "memory", field_name |-> "percent_used"] }

\* app_settings.CRITICAL_DEVICE_METRICS
CRITICAL_DEVICE_METRICS ==
    { [key |-> "ping", field_name |-> "reachable"] }

\* Device.management_ip values: an address, NULL, and the empty string
IpSet == "10.0.0.1"
IpNone == "None"
IpEmpty == ""

\* check types seen by handle_critical_metric
CheckTypes == {"ping", "cpu"}

NoMetric == [key |-> "", field_name |-> ""]

\* receivers of health_status_changed in the order they were connected:
\* record_device_availability_ts (connected when the models module is
\* imported), then the subscribers other applications connect
ExternalSubscribers == {"s1", "s2"}
Receivers == <<"record_device_availability_ts", "s1", "s2">>

\* the behaviours of the external subscribers a call can meet, when the
\* signal is sent at all: none raises, or the first one does
Failing(old, value) ==
    IF old = value THEN {{}} ELSE {{}, {Receivers[2]}}

\* metric-evaluation workers that may run threshold_crossed at the same time
Workers == {"w1", "w2"}

\* a worker that is not inside threshold_crossed
IdleWorker ==
    [pc |-> "idle", dev |-> NoDevice, metric |-> NoMetric, healthy |-> TRUE,
     monitoring |-> "none", value |-> "none", outcome |-> "returned",
     created |-> FALSE]

VARIABLES
    status,                    \* DeviceMonitoring.status per device, or NoRecord
    management_ip,             \* Device.management_ip per device
    is_healthy,                \* Metric.is_healthy per device and metric
    AUTO_CLEAR_MANAGEMENT_IP,  \* app setting, fixed for a deployment
    events,                    \* "device_status" points in the time-series store, in write order
    sent,                      \* health_status_changed signals sent, per device
    saved,                     \* DeviceMonitoring.save() calls, per device
    last,                      \* the handler that ran last: its inputs and outcome
    workers,                   \* concurrent threshold_crossed evaluations in progress
    decision,                  \* inputs and result of a decision evaluated on its own
    availability               \* inputs and result of an availability query

vars == <<status, management_ip, is_healthy, AUTO_CLEAR_MANAGEMENT_IP,
          events, sent, saved, last, workers, decision, availability>>

\* ---------------------------------------------------------- pure helpers
RECURSIVE SumOver(_, _)
SumOver(f, S) ==
    IF S = {} THEN 0
    ELSE LET x == CHOOSE y \in S : TRUE IN f[x] + SumOver(f, S \ {x})

\* signals sent so far, over all devices
TotalSent == SumOver(sent, Devices)

\* evaluations in progress, each of which may still send one signal
InFlight == Cardinality({w \in Workers : workers[w].pc # "idle"})

\* all orders in which a query may return the rows of S
Orderings(S) ==
    { seq \in [1..Cardinality(S) -> S] :
        \A i, j \in 1..Cardinality(S) : i # j => seq[i] # seq[j] }

is_metric_critical(metric) ==
    \E critical \in CRITICAL_DEVICE_METRICS :
        /\ metric.key = critical.key
        /\ metric.field_name = critical.field_name

\* monitoring.related_metrics: every metric attached to the device,
\* the triggering one included
related_metrics(d) ==
    MetricsOf(d)

\* related.filter(is_healthy=False) on the health column h
unhealthy(related, h) ==
    { m \in related : ~h[m] }

\* scan_related without the break: a later non-critical row overwrites
\* the critical verdict
RECURSIVE scan_related_no_break(_, _)
scan_related_no_break(rows, related_status) ==
    IF rows = <<>> THEN related_status
    ELSE IF is_metric_critical(Head(rows))
         THEN scan_related_no_break(Tail(rows), "critical")
    ELSE scan_related_no_break(Tail(rows), "problem")

\* the for loop of threshold_crossed over the unhealthy related metrics,
\* in the order the query returned them; the first critical one breaks
RECURSIVE scan_related(_, _)
scan_related(rows, related_status) ==
    IF rows = <<>> THEN related_status
    ELSE IF is_metric_critical(Head(rows)) THEN "critical"
    ELSE scan_related(Tail(rows), "problem")

\* decide_status without its first branch: a healthy triggering metric
\* hides the non-critical problems of the related metrics
decide_status_healthy_is_ok(metric, metric_is_healthy, related_status) ==
    IF metric_is_healthy /\ related_status = "critical" THEN "critical"
    ELSE IF ~metric_is_healthy
            /\ (is_metric_critical(metric) \/ related_status = "critical")
         THEN "critical"
    ELSE IF metric_is_healthy THEN "ok" ELSE "problem"

\* decide_status whose unhealthy branch looks at the triggering metric
\* only, not at related_status
decide_status_own_metric_only(metric, metric_is_healthy, related_status) ==
    IF metric_is_healthy /\ related_status = "problem" THEN "problem"
    ELSE IF metric_is_healthy /\ related_status = "critical" THEN "critical"
    ELSE IF ~metric_is_healthy /\ is_metric_critical(metric) THEN "critical"
    ELSE IF metric_is_healthy THEN "ok" ELSE "problem"

\* the if / elif chain of threshold_crossed
decide_status(metric, metric_is_healthy, related_status) ==
    LET initial == IF metric_is_healthy THEN "ok" ELSE "problem" IN
    IF metric_is_healthy /\ related_status = "problem" THEN "problem"
    ELSE IF metric_is_healthy /\ related_status = "critical" THEN "critical"
    ELSE IF ~metric_is_healthy
            /\ (is_metric_critical(metric) \/ related_status = "critical")
         THEN "critical"
    ELSE initial

\* the status threshold_crossed passes to update_status, for the rows the
\* related-metrics query returned
threshold_decision(metric, metric_is_healthy, rows) ==
    decide_status(metric, metric_is_healthy, scan_related(rows, "ok"))

\* cls._get_critical_metric_keys()
critical_metric_keys ==
    { critical.key : critical \in CRITICAL_DEVICE_METRICS }

\* availability_point that counts only "ok" as up
availability_point_ok_only(d, value) ==
    [pk |-> d, up |-> IF value = "ok" THEN 1 ELSE 0]

\* the point written by record_device_availability_ts
availability_point(d, value) ==
    [pk |-> d, up |-> IF value \in UP_STATUSES THEN 1 ELSE 0]

\* the receiver without its try / except: a failed write raises
record_device_availability_ts_unguarded(d, value, tsdb_ok) ==
    [store  |-> IF tsdb_ok THEN Append(events, availability_point(d, value))
                ELSE events,
     raised |-> ~tsdb_ok]

\* record_device_availability_ts: the receiver of health_status_changed.
\* tsdb_ok is whether _timeseries_write succeeds; a failure is swallowed.
\* Yields the store's new contents and whether the receiver raised.
record_device_availability_ts(d, value, tsdb_ok) ==
    [store  |-> IF tsdb_ok THEN Append(events, availability_point(d, value))
                ELSE events,
     raised |-> FALSE]

\* ------------------------------------------------------ WAN link status
\* interface names given to record_wan_link_status
Interfaces == {"eth0", "pppoe-wan1"}

\* values passed as is_up: booleans, the integers 0 and 1, and None
IsUpValues == {"True", "False", "1", "0", "None"}

\* the truth value Python gives to is_up in "1 if is_up else 0"
truthy(is_up) == is_up \in {"True", "1"}

\* the point written by record_wan_link_status
wan_point(device_id, ifname, is_up) ==
    [name |-> "wan_link_status", pk |-> device_id, ifname |-> ifname,
     up |-> IF truthy(is_up) THEN 1 ELSE 0]

\* record_wan_link_status without its try / except: a failed write raises
record_wan_link_status_unguarded(device_id, ifname, is_up, tsdb_ok) ==
    [store  |-> IF tsdb_ok
                THEN Append(events, wan_point(device_id, ifname, is_up))
                ELSE events,
     raised |-> ~tsdb_ok]

\* record_wan_link_status(device_id, ifname, is_up): tsdb_ok is whether
\* _timeseries_write succeeds; a failure is swallowed.  Yields the store's
\* new contents and whether the call raised.
record_wan_link_status(device_id, ifname, is_up, tsdb_ok) ==
    [store  |-> IF tsdb_ok
                THEN Append(events, wan_point(device_id, ifname, is_up))
                ELSE events,
     raised |-> FALSE]

\* ------------------------------------------------ availability: the store
\* An instant is a number of ticks; a datetime carries fractions of a
\* second, and strftime("%Y-%m-%d %H:%M:%S") keeps whole seconds only.
TicksPerSecond == 2

Ticks == 0..MaxTick

\* settings.TIME_ZONE: UTC, or a zone whose clocks are set back during the
\* modelled period (the end of daylight saving time)
TimeZones == {"UTC", "DST"}

\* the second at which the clocks of the DST zone are set back, and by how
\* many seconds
FallBackAt == MaxTick \div TicksPerSecond
FallBackBy == FallBackAt

\* tzinfo.utcoffset(dt), in seconds
utcoffset(tz, second) ==
    IF tz = "DST" /\ second < FallBackAt THEN FallBackBy ELSE 0

\* the points of measurement device_status with tag pk = device_id, in time
\* order; InfluxDB keeps one point per timestamp of a series
Histories ==
    UNION { { h \in [1..n -> [time : Ticks, up : {0, 1}]] :
                \A i \in 1..(n - 1) : h[i].time < h[i + 1].time }
            : n \in 0..MaxPoints }

\* SelectSeq with a predicate given as a set of rows
RECURSIVE Filter(_, _)
Filter(rows, keep) ==
    IF rows = <<>> THEN <<>>
    ELSE IF Head(rows) \in keep
         THEN <<Head(rows)>> \o Filter(Tail(rows), keep)
    ELSE Filter(Tail(rows), keep)

RECURSIVE Reverse(_)
Reverse(rows) ==
    IF rows = <<>> THEN <<>> ELSE Reverse(Tail(rows)) \o <<Head(rows)>>

\* a query without its LIMIT clause
Limit_absent(rows, n) == rows

\* LIMIT n
Limit(rows, n) ==
    IF Len(rows) <= n THEN rows ELSE SubSeq(rows, 1, n)

Rows(points) == { points[i] : i \in DOMAIN points }

\* q_prev with WHERE time < start
q_prev_strict(points, start_dt) ==
    LET rows == Filter(points, { p \in Rows(points) : p.time < start_dt })
    IN  IF rows = <<>> THEN <<>> ELSE <<[up |-> rows[Len(rows)].up]>>

\* SELECT LAST("up") AS up ... WHERE time <= start: no row, or one
q_prev(points, start_dt) ==
    LET rows == Filter(points, { p \in Rows(points) : p.time <= start_dt })
    IN  IF rows = <<>> THEN <<>> ELSE <<[up |-> rows[Len(rows)].up]>>

\* q_events keeping the oldest max_events points of the window instead of
\* the most recent
q_events_oldest(points, start_dt, end_dt, max_events) ==
    Reverse(Limit(Filter(points,
        { p \in Rows(points) : p.time >= start_dt /\ p.time < end_dt }),
        max_events))

\* SELECT "up","time" ... WHERE time >= start AND time < end
\* ORDER BY time DESC LIMIT max_events
q_events(points, start_dt, end_dt, max_events) ==
    Limit(Reverse(Filter(points,
        { p \in Rows(points) : p.time >= start_dt /\ p.time < end_dt })),
        max_events)

\* q_latest with WHERE time <= end
q_latest_inclusive(points, end_dt) ==
    LET rows == Filter(points, { p \in Rows(points) : p.time <= end_dt })
    IN  IF rows = <<>> THEN <<>> ELSE <<[up |-> rows[Len(rows)].up]>>

\* SELECT LAST("up") AS up ... WHERE time < end: no row, or one
q_latest(points, end_dt) ==
    LET rows == Filter(points, { p \in Rows(points) : p.time < end_dt })
    IN  IF rows = <<>> THEN <<>> ELSE <<[up |-> rows[Len(rows)].up]>>

\* SELECT "up","time" ... WHERE time >= start AND time < end ORDER BY time ASC
q_events_asc(points, start_dt, end_dt) ==
    Filter(points, { p \in Rows(points) : p.time >= start_dt /\ p.time < end_dt })

\* --------------------------------------------- availability: the functions
\* A display string "YYYY-MM-DD HH:MM:SS" is represented by the wall-clock
\* second it names; dp.parse of the string gives that second back, without
\* the fraction and without the UTC offset, which the string does not carry.
_fmt_in_current_tz(tz, dt) ==
    LET second == dt \div TicksPerSecond IN second + utcoffset(tz, second)

RECURSIVE Join(_, _)
Join(parts, sep) ==
    IF parts = <<>> THEN ""
    ELSE IF Len(parts) = 1 THEN parts[1]
    ELSE parts[1] \o sep \o Join(Tail(parts), sep)

_fmt_duration_short(seconds) ==
    LET sec == IF seconds > 0 THEN seconds ELSE 0
        h == sec \div 3600
        m == (sec % 3600) \div 60
        s == sec % 60
        parts == (IF h # 0 THEN <<ToString(h) \o "h">> ELSE <<>>)
                 \o (IF m # 0 THEN <<ToString(m) \o "m">> ELSE <<>>)
                 \o (IF h = 0 /\ m = 0 THEN <<ToString(s) \o "s">> ELSE <<>>)
    IN  IF parts = <<>> THEN "0s" ELSE Join(parts, " ")

\* None where a display string is expected
NoTime == -1

NoOutage ==
    [duration_seconds |-> 0, duration_human |-> "0s",
     start |-> NoTime, end |-> NoTime]

\* delta = max(0.0, (end_dt_local - start_dt_local).total_seconds()) of the
\* pair of events i, i + 1
interval_delta(evs, i) ==
    LET delta == evs[i + 1].time - evs[i].time IN
    IF delta > 0 THEN delta ELSE 0

\* the loop replacing the longest outage also on an equal duration: of
\* several longest down intervals the last one is kept
RECURSIVE friendly_loop_last_tie(_, _)
friendly_loop_last_tie(evs, n) ==
    IF n = 0
    THEN [intervals |-> <<>>, total_up |-> 0, total_down |-> 0,
          longest_outage |-> NoOutage]
    ELSE LET acc == friendly_loop_last_tie(evs, n - 1)
             delta == interval_delta(evs, n)
             st == evs[n].status
             item == [start |-> evs[n].time, end |-> evs[n + 1].time,
                      status |-> st, duration_seconds |-> delta,
                      duration_human |-> _fmt_duration_short(delta),
                      status_label |-> IF st = "up" THEN "Up" ELSE "Down"]
         IN  [intervals |-> Append(acc.intervals, item),
              total_up |-> acc.total_up + IF st = "up" THEN delta ELSE 0,
              total_down |-> acc.total_down + IF st = "up" THEN 0 ELSE delta,
              longest_outage |->
                  IF st # "up" /\ delta > 0
                     /\ delta >= acc.longest_outage.duration_seconds
                  THEN [duration_seconds |-> delta,
                        duration_human |-> _fmt_duration_short(delta),
                        start |-> evs[n].time, end |-> evs[n + 1].time]
                  ELSE acc.longest_outage]

\* the loop of _build_friendly_intervals after its first n iterations
RECURSIVE friendly_loop(_, _)
friendly_loop(evs, n) ==
    IF n = 0
    THEN [intervals |-> <<>>, total_up |-> 0, total_down |-> 0,
          longest_outage |-> NoOutage]
    ELSE LET acc == friendly_loop(evs, n - 1)
             delta == interval_delta(evs, n)
             st == evs[n].status
             item == [start |-> evs[n].time, end |-> evs[n + 1].time,
                      status |-> st, duration_seconds |-> delta,
                      duration_human |-> _fmt_duration_short(delta),
                      status_label |-> IF st = "up" THEN "Up" ELSE "Down"]
         IN  [intervals |-> Append(acc.intervals, item),
              total_up |-> acc.total_up + IF st = "up" THEN delta ELSE 0,
              total_down |-> acc.total_down + IF st = "up" THEN 0 ELSE delta,
              longest_outage |->
                  IF st # "up" /\ delta > acc.longest_outage.duration_seconds
                  THEN [duration_seconds |-> delta,
                        duration_human |-> _fmt_duration_short(delta),
                        start |-> evs[n].time, end |-> evs[n + 1].time]
                  ELSE acc.longest_outage]

_build_friendly_intervals(evs) ==
    LET built == friendly_loop(evs, Len(evs) - 1) IN
    [intervals |-> built.intervals,
     totals |-> [uptime_seconds |-> built.total_up,
                 uptime_human |-> _fmt_duration_short(built.total_up),
                 downtime_seconds |-> built.total_down,
                 downtime_human |-> _fmt_duration_short(built.total_down),
                 longest_outage |-> built.longest_outage]]

\* an uptime_percent value: a number kept in hundredths of a percent, None,
\* or no such key in the result
Number(hundredths) == [kind |-> "number", hundredths |-> hundredths]
NoneValue == [kind |-> "None", hundredths |-> 0]
Absent == [kind |-> "absent", hundredths |-> 0]

\* round(num / den * 100.0, 2) in hundredths: to the nearest hundredth, a
\* tie going to the even one
round_percent(num, den) ==
    LET q == (num * 10000) \div den
        r == (num * 10000) % den
    IN  IF 2 * r < den THEN q
        ELSE IF 2 * r > den THEN q + 1
        ELSE IF q % 2 = 0 THEN q ELSE q + 1

\* the loop crediting each sub-interval to the state recorded at its end
\* instead of the state in force during it
RECURSIVE uptime_loop_state_at_flip(_, _, _, _)
uptime_loop_state_at_flip(rows, cur_up, t, up_seconds) ==
    IF rows = <<>> THEN [cur_up |-> cur_up, t |-> t, up_seconds |-> up_seconds]
    ELSE uptime_loop_state_at_flip(Tail(rows), Head(rows).up, Head(rows).time,
             up_seconds + IF Head(rows).up = 1 THEN Head(rows).time - t ELSE 0)

\* the loop measuring every sub-interval from the start of the window: t is
\* never advanced to the point just read
RECURSIVE uptime_loop_from_start(_, _, _, _)
uptime_loop_from_start(rows, cur_up, t, up_seconds) ==
    IF rows = <<>> THEN [cur_up |-> cur_up, t |-> t, up_seconds |-> up_seconds]
    ELSE uptime_loop_from_start(Tail(rows), Head(rows).up, t,
             up_seconds + IF cur_up = 1 THEN Head(rows).time - t ELSE 0)

\* the loop of _uptime_pct_from_events over the rows still to be read
RECURSIVE uptime_loop(_, _, _, _)
uptime_loop(rows, cur_up, t, up_seconds) ==
    IF rows = <<>> THEN [cur_up |-> cur_up, t |-> t, up_seconds |-> up_seconds]
    ELSE uptime_loop(Tail(rows), Head(rows).up, Head(rows).time,
                     up_seconds + IF cur_up = 1 THEN Head(rows).time - t ELSE 0)

\* _uptime_pct_from_events whose final segment runs from start_dt instead of
\* from the last point
_uptime_pct_final_from_start(points, start_dt, end_dt) ==
    IF start_dt >= end_dt THEN 0
    ELSE LET prev == q_prev(points, start_dt)
             cur_up == IF prev # <<>> THEN prev[1].up ELSE 0
             scan == uptime_loop(q_events_asc(points, start_dt, end_dt),
                                 cur_up, start_dt, 0)
             up_seconds == scan.up_seconds +
                           IF scan.cur_up = 1 THEN end_dt - start_dt ELSE 0
             total == end_dt - start_dt
         IN  IF total > 0 THEN round_percent(up_seconds, total) ELSE 0

\* the result in hundredths of a percent
_uptime_pct_from_events(points, start_dt, end_dt) ==
    IF start_dt >= end_dt THEN 0
    ELSE LET prev == q_prev(points, start_dt)
             cur_up == IF prev # <<>> THEN prev[1].up ELSE 0
             scan == uptime_loop(q_events_asc(points, start_dt, end_dt),
                                 cur_up, start_dt, 0)
             up_seconds == scan.up_seconds +
                           IF scan.cur_up = 1 THEN end_dt - scan.t ELSE 0
             total == end_dt - start_dt
         IN  IF total > 0 THEN round_percent(up_seconds, total) ELSE 0

\* store queries _uptime_pct_from_events makes
uptime_queries(start_dt, end_dt) == IF start_dt >= end_dt THEN 0 ELSE 2

\* the loop without its nxt != cur_up test: a Flip event for every row
RECURSIVE flip_events_unfiltered(_, _, _)
flip_events_unfiltered(tz, rows, cur_up) ==
    IF rows = <<>> THEN <<>>
    ELSE <<[time |-> _fmt_in_current_tz(tz, Head(rows).time),
            status |-> IF Head(rows).up = 1 THEN "up" ELSE "down",
            synthetic |-> FALSE, type |-> "Flip"]>>
         \o flip_events_unfiltered(tz, Tail(rows), Head(rows).up)

\* the loop comparing every row with the state at start: cur_up is never
\* advanced
RECURSIVE flip_events_stale_state(_, _, _)
flip_events_stale_state(tz, rows, cur_up) ==
    IF rows = <<>> THEN <<>>
    ELSE LET nxt == Head(rows).up IN
         IF nxt # cur_up
         THEN <<[time |-> _fmt_in_current_tz(tz, Head(rows).time),
                 status |-> IF nxt = 1 THEN "up" ELSE "down",
                 synthetic |-> FALSE, type |-> "Flip"]>>
              \o flip_events_stale_state(tz, Tail(rows), cur_up)
         ELSE flip_events_stale_state(tz, Tail(rows), cur_up)

\* the loop over the in-window rows: a Flip event for each row whose up
\* differs from the running state
RECURSIVE flip_events(_, _, _)
flip_events(tz, rows, cur_up) ==
    IF rows = <<>> THEN <<>>
    ELSE LET nxt == Head(rows).up IN
         IF nxt # cur_up
         THEN <<[time |-> _fmt_in_current_tz(tz, Head(rows).time),
                 status |-> IF nxt = 1 THEN "up" ELSE "down",
                 synthetic |-> FALSE, type |-> "Flip"]>>
              \o flip_events(tz, Tail(rows), nxt)
         ELSE flip_events(tz, Tail(rows), cur_up)

\* events[i], events[i + 1] stitched into intervals
build_timeline(evs) ==
    [i \in 1..(Len(evs) - 1) |->
        [start |-> evs[i].time, end |-> evs[i + 1].time,
         status |-> evs[i].status]]

\* default of the max_events parameter
DefaultMaxEvents == 500

\* the get_list_query calls of get_device_availability in the order they
\* are made: three for the timeline, and the two of _uptime_pct_from_events
PrimaryReads == <<"q_prev", "q_events", "q_latest">>
UptimeReads == <<"uptime_q_prev", "uptime_q_events">>

\* no read fails
NoRead == "none"

Position(reads, read) == CHOOSE i \in DOMAIN reads : reads[i] = read

InReads(reads, read) == \E i \in DOMAIN reads : reads[i] = read

\* the "window" entry of the result
availability_window(tz, start_dt, end_dt) ==
    [start |-> _fmt_in_current_tz(tz, start_dt),
     end |-> _fmt_in_current_tz(tz, end_dt), tz |-> tz]

\* what get_device_availability returns when start_dt >= end_dt.
\* queries: get_list_query calls made
empty_availability(tz, start_dt, end_dt, include_uptime) ==
    [window |-> availability_window(tz, start_dt, end_dt),
     events |-> <<>>, timeline |-> <<>>,
     uptime_percent |-> IF include_uptime THEN Number(0) ELSE Absent,
     friendly |->
         [intervals |-> <<>>,
          summary |-> [total_uptime |-> "0s", total_downtime |-> "0s",
                       longest_outage |-> NoOutage,
                       uptime_percent |-> IF include_uptime
                                          THEN Number(0) ELSE NoneValue]],
     queries |-> 0, raised |-> FALSE]

\* the call left by an exception of get_list_query after n queries: nothing
\* is returned
raised_availability(n) ==
    [window |-> [start |-> NoTime, end |-> NoTime, tz |-> "None"],
     events |-> <<>>, timeline |-> <<>>, uptime_percent |-> Absent,
     friendly |->
         [intervals |-> <<>>,
          summary |-> [total_uptime |-> "None", total_downtime |-> "None",
                       longest_outage |-> NoOutage,
                       uptime_percent |-> Absent]],
     queries |-> n, raised |-> TRUE]

\* a failure of one of the three reads of the primary timeline is not
\* handled by get_device_availability: it leaves the call as an exception
primary_read_caught(failing_read) == FALSE

primary_read_raises(failing_read) == InReads(PrimaryReads, failing_read)

\* the call of _uptime_pct_from_events is not guarded
uptime_failure_uncaught(failing_read) == FALSE

\* try: _uptime_pct_from_events(...) except Exception: a failure of one of
\* its reads is caught
uptime_failure_caught(failing_read) == InReads(UptimeReads, failing_read)

\* get_device_availability past its start_dt >= end_dt check
reconstruct_availability(points, tz, start_dt, end_dt, include_uptime, max_events, override_end_status, failing_read) ==
    IF primary_read_raises(failing_read)
    THEN raised_availability(Position(PrimaryReads, failing_read))
    ELSE
         LET window == availability_window(tz, start_dt, end_dt)
             prev == q_prev(points, start_dt)
             cur_up == IF prev # <<>> THEN prev[1].up ELSE 0
             rows == Reverse(q_events(points, start_dt, end_dt, max_events))
             latest == q_latest(points, end_dt)
             end_up_tsdb == IF latest # <<>> THEN latest[1].up ELSE cur_up
             end_status == IF override_end_status \in {"up", "down"}
                           THEN override_end_status
                           ELSE IF end_up_tsdb = 1 THEN "up" ELSE "down"
             evs == <<[time |-> window.start,
                       status |-> IF cur_up = 1 THEN "up" ELSE "down",
                       synthetic |-> TRUE, type |-> "Boundary"]>>
                    \o flip_events(tz, rows, cur_up)
                    \o <<[time |-> window.end, status |-> end_status,
                          synthetic |-> TRUE, type |-> "Boundary"]>>
             friendly_built == _build_friendly_intervals(evs)
             uptime_percent ==
                 IF ~include_uptime THEN Absent
                 ELSE IF uptime_failure_caught(failing_read) THEN NoneValue
                 ELSE Number(_uptime_pct_from_events(points, start_dt, end_dt))
         IN  [window |-> window, events |-> evs,
              timeline |-> build_timeline(evs),
              uptime_percent |-> uptime_percent,
              friendly |->
                  [intervals |-> friendly_built.intervals,
                   summary |->
                       [total_uptime |-> friendly_built.totals.uptime_human,
                        total_downtime |-> friendly_built.totals.downtime_human,
                        longest_outage |-> friendly_built.totals.longest_outage,
                        uptime_percent |-> uptime_percent]],
              queries |-> Len(PrimaryReads) +
                  IF ~include_uptime THEN 0
                  ELSE IF InReads(UptimeReads, failing_read)
                       THEN Position(UptimeReads, failing_read)
                  ELSE uptime_queries(start_dt, end_dt),
              raised |-> FALSE]

\* get_device_availability without its start_dt >= end_dt check
get_device_availability_unchecked(points, tz, start_dt, end_dt, include_uptime, max_events, override_end_status, failing_read) ==
    reconstruct_availability(points, tz, start_dt, end_dt, include_uptime,
                             max_events, override_end_status, failing_read)

\* get_device_availability(device_id, start=, end=, include_uptime=,
\* max_events=, override_end_status=) over the points of the device, with
\* settings.TIME_ZONE = tz, while the store fails the read failing_read
get_device_availability(points, tz, start_dt, end_dt, include_uptime, max_events, override_end_status, failing_read) ==
    IF start_dt >= end_dt
    THEN empty_availability(tz, start_dt, end_dt, include_uptime)
    ELSE reconstruct_availability(points, tz, start_dt, end_dt,
                                  include_uptime, max_events,
                                  override_end_status, failing_read)

\* values of the override_end_status parameter
Overrides == {"up", "down", "None"}

\* values of the max_events parameter
MaxEventsChoices == {1, 2, DefaultMaxEvents}

\* the reads a call can find failing: those it makes
FailingReads(start_dt, end_dt, include_uptime) ==
    IF start_dt >= end_dt THEN {NoRead}
    ELSE {NoRead}
         \cup { PrimaryReads[i] : i \in DOMAIN PrimaryReads }
         \cup IF include_uptime
              THEN { UptimeReads[i] : i \in DOMAIN UptimeReads } ELSE {}

\* op: "none", "get_device_availability" or "_uptime_pct_from_events";
\* the inputs of the call; failing_read: the read the store fails, if any;
\* result: what get_device_availability returned;
\* uptime: what a direct call of _uptime_pct_from_events returned, unless
\* uptime_raised
NoQuery ==
    [op |-> "none", points |-> <<>>, tz |-> "UTC", start |-> 0, end |-> 0,
     include_uptime |-> TRUE, max_events |-> DefaultMaxEvents,
     override_end_status |-> "None", failing_read |-> NoRead,
     result |-> get_device_availability(<<>>, "UTC", 0, 0, TRUE,
                                        DefaultMaxEvents, "None", NoRead),
     uptime |-> Number(0), uptime_queries |-> 0, uptime_raised |-> FALSE]

\* ------------------------------------------------------------- operations
\* prev: when the call repeats the call right before it (same operation,
\* device and value), what that call found and sent; NoPrev otherwise
\* no interface observation: the call is not record_wan_link_status
NoWan == [ifname |-> "none", is_up |-> "None"]

\* no Check instance: the handler is not handle_critical_metric
NoCheck == [check_type |-> "none", is_active |-> TRUE, deleted |-> FALSE]

NoPrev == [old |-> "none", notified |-> 0]

NoDecision ==
    [metric |-> NoMetric, healthy |-> TRUE, rows |-> <<>>, value |-> "none"]

\* op, dev, value: the handler, its device, and the status it passed to
\*   update_status or wrote with a queryset update ("none": neither)
\* old: the status the record held when the handler read it
\* tsdb_ok: whether the time-series store accepted writes during the call
\* notified, saves, points: signals sent, save() calls and points appended
\*   by the call;  ip_before: the management address before the call
\* outcome: "returned", or "raised" when an exception reached the caller
\* failing: the external subscribers that raise when they are called
\* called: the receivers of health_status_changed the call reached
\* check: for handle_critical_metric, the Check it was called for
\* wan: for record_wan_link_status, its ifname and is_up arguments
NoCall ==
    [op |-> "none", dev |-> NoDevice, value |-> "none", old |-> "none",
     tsdb_ok |-> TRUE, notified |-> 0, saves |-> 0, points |-> 0,
     ip_before |-> "none", outcome |-> "returned", prev |-> NoPrev,
     failing |-> {}, called |-> {}, check |-> NoCheck, wan |-> NoWan]

\* the prev field of a call op(d, value) made now
prev_of(op, d, value) ==
    IF last.op = op /\ last.dev = d /\ last.value = value
    THEN [old |-> last.old, notified |-> last.notified]
    ELSE NoPrev

\* update_status without its early return: it saves and sends every time
update_status_always(d, self_status, value, tsdb_ok, db) ==
    LET receiver == record_device_availability_ts(d, value, tsdb_ok) IN
    /\ status' = [db EXCEPT ![d] = value]
    /\ saved' = [saved EXCEPT ![d] = @ + 1]
    /\ management_ip' =
          IF value = "critical" /\ AUTO_CLEAR_MANAGEMENT_IP
          THEN [management_ip EXCEPT ![d] = IpNone]
          ELSE management_ip
    /\ sent' = [sent EXCEPT ![d] = @ + 1]
    /\ events' = receiver.store

\* update_status that sends the signal but never stores the new status
update_status_not_persisted(d, self_status, value, tsdb_ok, db) ==
    IF self_status = value
    THEN /\ status' = db
         /\ UNCHANGED <<management_ip, events, sent, saved>>
    ELSE LET receiver == record_device_availability_ts(d, value, tsdb_ok) IN
         /\ status' = db
         /\ UNCHANGED <<management_ip, saved>>
         /\ sent' = [sent EXCEPT ![d] = @ + 1]
         /\ events' = receiver.store

\* update_status that clears the management address on every change into
\* critical, whatever AUTO_CLEAR_MANAGEMENT_IP says
update_status_clear_ungated(d, self_status, value, tsdb_ok, db) ==
    IF self_status = value
    THEN /\ status' = db
         /\ UNCHANGED <<management_ip, events, sent, saved>>
    ELSE LET receiver == record_device_availability_ts(d, value, tsdb_ok) IN
         /\ status' = [db EXCEPT ![d] = value]
         /\ saved' = [saved EXCEPT ![d] = @ + 1]
         /\ management_ip' =
               IF value = "critical"
               THEN [management_ip EXCEPT ![d] = IpNone]
               ELSE management_ip
         /\ sent' = [sent EXCEPT ![d] = @ + 1]
         /\ events' = receiver.store

\* update_status(self, value) on an instance whose in-memory status is
\* self_status, while the status table holds db
update_status(d, self_status, value, tsdb_ok, db) ==
    IF self_status = value
    THEN /\ status' = db
         /\ UNCHANGED <<management_ip, events, sent, saved>>
    ELSE LET receiver == record_device_availability_ts(d, value, tsdb_ok) IN
         /\ status' = [db EXCEPT ![d] = value]
         /\ saved' = [saved EXCEPT ![d] = @ + 1]
         /\ management_ip' =
               IF value = "critical" /\ AUTO_CLEAR_MANAGEMENT_IP
               THEN [management_ip EXCEPT ![d] = IpNone]
               ELSE management_ip
         /\ sent' = [sent EXCEPT ![d] = @ + 1]
         /\ events' = receiver.store

\* Signal.send from receiver i on: each receiver is called in turn, and an
\* exception raised by one of them propagates, so the receivers after it
\* are not called
RECURSIVE send_from(_, _)
send_from(i, raising) ==
    IF i > Len(Receivers) THEN [called |-> {}, raised |-> FALSE]
    ELSE IF Receivers[i] \in raising
         THEN [called |-> {Receivers[i]}, raised |-> TRUE]
    ELSE LET rest == send_from(i + 1, raising) IN
         [called |-> {Receivers[i]} \cup rest.called, raised |-> rest.raised]

\* health_status_changed.send(sender, instance, status=value)
send(d, value, tsdb_ok, failing) ==
    send_from(1, failing \cup
        IF record_device_availability_ts(d, value, tsdb_ok).raised
        THEN {Receivers[1]} ELSE {})

\* whether update_status returns normally: health_status_changed.send
\* re-raises what a receiver raises
update_status_outcome(d, self_status, value, tsdb_ok, failing) ==
    IF self_status # value /\ send(d, value, tsdb_ok, failing).raised
    THEN "raised" ELSE "returned"

\* what a handler that ran update_status(value) on device d leaves in last
call_record(op, d, value, old, tsdb_ok, failing, prev) ==
    [op |-> op, dev |-> d, value |-> value, old |-> old, tsdb_ok |-> tsdb_ok,
     notified |-> sent'[d] - sent[d],
     saves |-> saved'[d] - saved[d],
     points |-> Len(events') - Len(events),
     ip_before |-> management_ip[d],
     outcome |-> update_status_outcome(d, old, value, tsdb_ok, failing),
     prev |-> prev,
     failing |-> failing,
     called |-> IF old = value THEN {}
                ELSE send(d, value, tsdb_ok, failing).called,
     check |-> NoCheck, wan |-> NoWan]

\* no constraint on the device column: an insert is always accepted
unique_unchecked(d, db) == FALSE

\* device is a OneToOneField, so the column is unique: the insert of a row
\* for a device that has one is rejected with an IntegrityError
unique_violation(d, db) == db[d] # NoRecord

\* target.monitoring, or DeviceMonitoring.objects.create(device=target)
get_or_create_monitoring(d, db) ==
    IF db[d] = NoRecord THEN [db EXCEPT ![d] = DefaultStatus] ELSE db

\* Metric threshold check (monitoring app): stores the metric's new health,
\* then sends threshold_crossed
check_threshold(d, metric, healthy) ==
    [is_healthy EXCEPT ![d][metric] = healthy]

\* the threshold_crossed receiver for a Device target, run to completion
threshold_crossed(d, metric, healthy, rows, tsdb_ok, failing) ==
    LET db == get_or_create_monitoring(d, status)
        value == threshold_decision(metric, healthy, rows)
    IN  /\ update_status(d, db[d], value, tsdb_ok, db)
        /\ last' = call_record("threshold_crossed", d, value, db[d], tsdb_ok,
                               failing, NoPrev)

\* a metric of device d crosses its threshold (or recovers)
ThresholdCrossed ==
    \E d \in Devices : \E metric \in MetricsOf(d) : \E healthy \in BOOLEAN :
    \E tsdb_ok \in BOOLEAN :
        /\ TotalSent < MaxSent
        /\ is_healthy' = check_threshold(d, metric, healthy)
        /\ \E rows \in Orderings(unhealthy(related_metrics(d), is_healthy'[d])) :
           \E failing \in Failing(get_or_create_monitoring(d, status)[d],
                                  threshold_decision(metric, healthy, rows)) :
              threshold_crossed(d, metric, healthy, rows, tsdb_ok, failing)
        /\ UNCHANGED <<AUTO_CLEAR_MANAGEMENT_IP, workers, decision, availability>>

\* threshold_crossed for a target that is not a Device: early return
ThresholdCrossedOther ==
    /\ last' = [NoCall EXCEPT !.op = "threshold_crossed"]
    /\ UNCHANGED <<status, management_ip, is_healthy,
                   AUTO_CLEAR_MANAGEMENT_IP, events, sent, saved, workers, decision, availability>>

\* update_status called on a freshly loaded monitoring record
UpdateStatus ==
    \E d \in Devices : \E value \in STATUS : \E tsdb_ok \in BOOLEAN :
    \E failing \in Failing(status[d], value) :
        /\ status[d] # NoRecord
        /\ TotalSent < MaxSent
        /\ update_status(d, status[d], value, tsdb_ok, status)
        /\ last' = call_record("update_status", d, value, status[d], tsdb_ok,
                               failing, prev_of("update_status", d, value))
        /\ UNCHANGED <<is_healthy, AUTO_CLEAR_MANAGEMENT_IP, workers, decision, availability>>

\* cls.objects.filter(device_id=...).update(status=value): no save(), no signal
queryset_update(ds, value) ==
    [d \in Devices |->
        IF d \in ds /\ status[d] # NoRecord THEN value ELSE status[d]]

handle_deactivated_device(d) ==
    /\ status' = queryset_update({d}, "deactivated")
    /\ last' = [NoCall EXCEPT !.op = "deactivate", !.dev = d,
                  !.value = "deactivated", !.old = status[d],
                  !.ip_before = management_ip[d]]
    /\ UNCHANGED <<management_ip, is_healthy, AUTO_CLEAR_MANAGEMENT_IP,
                   events, sent, saved, workers, decision, availability>>

handle_activated_device(d) ==
    /\ status' = queryset_update({d}, "unknown")
    /\ last' = [NoCall EXCEPT !.op = "activate", !.dev = d,
                  !.value = "unknown", !.old = status[d],
                  !.ip_before = management_ip[d]]
    /\ UNCHANGED <<management_ip, is_healthy, AUTO_CLEAR_MANAGEMENT_IP,
                   events, sent, saved, workers, decision, availability>>

\* every device belongs to the one organization of the model
handle_disabled_organization ==
    /\ management_ip' = [d \in Devices |-> IpEmpty]
    /\ status' = queryset_update(Devices, "unknown")
    /\ last' = [NoCall EXCEPT !.op = "disable_organization", !.value = "unknown"]
    /\ UNCHANGED <<is_healthy, AUTO_CLEAR_MANAGEMENT_IP, events, sent, saved,
                   workers, decision, availability>>

\* handle_critical_metric without its is_active / post_delete test: every
\* save of a critical check resets the status
handle_critical_metric_any_save(d, check_type, is_active, deleted, tsdb_ok, failing) ==
    /\ TotalSent < MaxSent
    /\ IF check_type \in critical_metric_keys
          /\ status[d] # NoRecord
       THEN /\ update_status(d, status[d], "unknown", tsdb_ok, status)
            /\ last' = [call_record("critical_metric", d, "unknown",
                                    status[d], tsdb_ok, failing, NoPrev)
                           EXCEPT !.check = [check_type |-> check_type,
                                             is_active |-> is_active,
                                             deleted |-> deleted]]
       ELSE /\ last' = [NoCall EXCEPT !.op = "critical_metric", !.dev = d,
                          !.old = status[d], !.ip_before = management_ip[d],
                          !.check = [check_type |-> check_type,
                                     is_active |-> is_active,
                                     deleted |-> deleted]]
            /\ UNCHANGED <<status, management_ip, events, sent, saved>>
    /\ UNCHANGED <<is_healthy, AUTO_CLEAR_MANAGEMENT_IP, workers, decision, availability>>

\* post_save / post_delete of a Check attached to device d
handle_critical_metric(d, check_type, is_active, deleted, tsdb_ok, failing) ==
    /\ TotalSent < MaxSent
    /\ IF check_type \in critical_metric_keys
          /\ status[d] # NoRecord
          /\ (~is_active \/ deleted)
       THEN /\ update_status(d, status[d], "unknown", tsdb_ok, status)
            /\ last' = [call_record("critical_metric", d, "unknown",
                                    status[d], tsdb_ok, failing, NoPrev)
                           EXCEPT !.check = [check_type |-> check_type,
                                             is_active |-> is_active,
                                             deleted |-> deleted]]
       ELSE /\ last' = [NoCall EXCEPT !.op = "critical_metric", !.dev = d,
                          !.old = status[d], !.ip_before = management_ip[d],
                          !.check = [check_type |-> check_type,
                                     is_active |-> is_active,
                                     deleted |-> deleted]]
            /\ UNCHANGED <<status, management_ip, events, sent, saved>>
    /\ UNCHANGED <<is_healthy, AUTO_CLEAR_MANAGEMENT_IP, workers, decision, availability>>

\* the device contacts the controller again, which stores its address
\* (openwisp_controller; outside this application)
ManagementIpLearned ==
    \E d \in Devices :
        /\ management_ip[d] # IpSet
        /\ management_ip' = [management_ip EXCEPT ![d] = IpSet]
        /\ last' = [NoCall EXCEPT !.op = "ip_learned", !.dev = d,
                      !.old = status[d], !.ip_before = management_ip[d]]
        /\ UNCHANGED <<status, is_healthy, AUTO_CLEAR_MANAGEMENT_IP,
                       events, sent, saved, workers, decision, availability>>

Deactivate == \E d \in Devices : handle_deactivated_device(d)

Activate == \E d \in Devices : handle_activated_device(d)

DisableOrganization == handle_disabled_organization

CriticalCheckChanged ==
    \E d \in Devices : \E check_type \in CheckTypes :
    \E is_active \in BOOLEAN : \E deleted \in BOOLEAN : \E tsdb_ok \in BOOLEAN :
    \E failing \in Failing(status[d], "unknown") :
        handle_critical_metric(d, check_type, is_active, deleted, tsdb_ok,
                               failing)

\* ----------------------------------------------------------- specification
Init ==
    /\ status \in [Devices -> {NoRecord, DefaultStatus}]
    /\ management_ip = [d \in Devices |-> IpSet]
    /\ is_healthy = [d \in Devices |-> [m \in MetricsOf(d) |-> TRUE]]
    /\ AUTO_CLEAR_MANAGEMENT_IP \in BOOLEAN
    /\ events = <<>>
    /\ sent = [d \in Devices |-> 0]
    /\ saved = [d \in Devices |-> 0]
    /\ last = NoCall
    /\ workers = [w \in Workers |-> IdleWorker]
    /\ decision = NoDecision
    /\ availability = NoQuery

Next ==
    \/ ThresholdCrossed
    \/ ThresholdCrossedOther
    \/ UpdateStatus
    \/ Deactivate
    \/ Activate
    \/ DisableOrganization
    \/ CriticalCheckChanged
    \/ ManagementIpLearned

Spec == Init /\ [][Next]_vars

\* ------------------------------------------- concurrent metric evaluation
\* The same receiver run by independent workers.  Each database statement
\* is one step: the metric save, the read of target.monitoring, the create,
\* the related-metrics query, and update_status with its save and signal.

\* the worker's metric crosses its threshold: the new health is saved and
\* threshold_crossed is sent
WorkerCheckThreshold(w) ==
    \E d \in Devices : \E metric \in MetricsOf(d) : \E healthy \in BOOLEAN :
        /\ workers[w].pc = "idle"
        /\ TotalSent + InFlight < MaxSent
        /\ is_healthy' = check_threshold(d, metric, healthy)
        /\ workers' = [workers EXCEPT ![w] =
              [IdleWorker EXCEPT !.pc = "get", !.dev = d, !.metric = metric,
                                 !.healthy = healthy]]
        /\ UNCHANGED <<status, management_ip, AUTO_CLEAR_MANAGEMENT_IP,
                       events, sent, saved, last, decision, availability>>

\* monitoring = target.monitoring
WorkerGetMonitoring(w) ==
    /\ workers[w].pc = "get"
    /\ workers' = [workers EXCEPT ![w] =
          IF status[@.dev] = NoRecord
          THEN [@ EXCEPT !.pc = "create"]
          ELSE [@ EXCEPT !.pc = "scan", !.monitoring = status[workers[w].dev]]]
    /\ UNCHANGED <<status, management_ip, is_healthy,
                   AUTO_CLEAR_MANAGEMENT_IP, events, sent, saved, last, decision, availability>>

\* except DoesNotExist: DeviceMonitoring.objects.create(device=target);
\* the one-to-one constraint rejects a second row for the device
WorkerCreateMonitoring(w) ==
    LET d == workers[w].dev IN
    /\ workers[w].pc = "create"
    /\ IF ~unique_violation(d, status)
       THEN /\ status' = get_or_create_monitoring(d, status)
            /\ workers' = [workers EXCEPT ![w].pc = "scan",
                                          ![w].monitoring = DefaultStatus,
                                          ![w].created = TRUE]
       ELSE /\ workers' = [workers EXCEPT ![w].pc = "idle",
                                          ![w].outcome = "raised"]
            /\ UNCHANGED status
    /\ UNCHANGED <<management_ip, is_healthy, AUTO_CLEAR_MANAGEMENT_IP,
                   events, sent, saved, last, decision, availability>>

\* the related-metrics query, the scan and the decision
WorkerDecide(w) ==
    LET d == workers[w].dev IN
    /\ workers[w].pc = "scan"
    /\ \E rows \in Orderings(unhealthy(related_metrics(d), is_healthy[d])) :
          workers' = [workers EXCEPT ![w].pc = "update",
             ![w].value = threshold_decision(workers[w].metric,
                                             workers[w].healthy, rows)]
    /\ UNCHANGED <<status, management_ip, is_healthy,
                   AUTO_CLEAR_MANAGEMENT_IP, events, sent, saved, last, decision, availability>>

\* monitoring.update_status(status) on the worker's copy of the record
WorkerUpdateStatus(w) ==
    LET d == workers[w].dev IN
    /\ workers[w].pc = "update"
    /\ \E tsdb_ok \in BOOLEAN :
       \E failing \in Failing(workers[w].monitoring, workers[w].value) :
          /\ update_status(d, workers[w].monitoring, workers[w].value,
                           tsdb_ok, status)
          /\ workers' = [workers EXCEPT ![w].pc = "idle",
                ![w].monitoring = workers[w].value,
                ![w].outcome = update_status_outcome(d, workers[w].monitoring,
                                   workers[w].value, tsdb_ok, failing)]
    /\ UNCHANGED <<is_healthy, AUTO_CLEAR_MANAGEMENT_IP, last, decision, availability>>

WorkerStart == \E w \in Workers : WorkerCheckThreshold(w)

WorkerGet == \E w \in Workers : WorkerGetMonitoring(w)

WorkerCreate == \E w \in Workers : WorkerCreateMonitoring(w)

WorkerScan == \E w \in Workers : WorkerDecide(w)

WorkerUpdate == \E w \in Workers : WorkerUpdateStatus(w)

NextWorkers ==
    \/ WorkerStart
    \/ WorkerGet
    \/ WorkerCreate
    \/ WorkerScan
    \/ WorkerUpdate

SpecWorkers == Init /\ [][NextWorkers]_vars

\* ------------------------------------- update_status statement by statement
\* update_status up to its save: the comparison with the worker's copy,
\* self.save() and the clearing of the management address
WorkerSaveStatus(w) ==
    LET d == workers[w].dev
        value == workers[w].value
    IN
    /\ workers[w].pc = "update"
    /\ IF workers[w].monitoring = value
       THEN /\ workers' = [workers EXCEPT ![w].pc = "idle"]
            /\ UNCHANGED <<status, saved, management_ip>>
       ELSE /\ status' = [status EXCEPT ![d] = value]
            /\ saved' = [saved EXCEPT ![d] = @ + 1]
            /\ management_ip' =
                  IF value = "critical" /\ AUTO_CLEAR_MANAGEMENT_IP
                  THEN [management_ip EXCEPT ![d] = IpNone]
                  ELSE management_ip
            /\ workers' = [workers EXCEPT ![w].pc = "send",
                                          ![w].monitoring = value]
    /\ UNCHANGED <<is_healthy, AUTO_CLEAR_MANAGEMENT_IP, events, sent, last,
                   decision, availability>>

\* health_status_changed.send(...): the receivers run with status = value;
\* last.old is what the status table holds for the device at that moment
WorkerSendSignal(w) ==
    LET d == workers[w].dev
        value == workers[w].value
    IN
    /\ workers[w].pc = "send"
    /\ \E tsdb_ok \in BOOLEAN : \E failing \in {{}, {Receivers[2]}} :
          /\ sent' = [sent EXCEPT ![d] = @ + 1]
          /\ events' = record_device_availability_ts(d, value, tsdb_ok).store
          /\ last' = [NoCall EXCEPT !.op = "send", !.dev = d,
                         !.value = value, !.old = status[d],
                         !.tsdb_ok = tsdb_ok, !.notified = 1,
                         !.points = Len(events') - Len(events),
                         !.failing = failing,
                         !.called = send(d, value, tsdb_ok, failing).called,
                         !.outcome = IF send(d, value, tsdb_ok, failing).raised
                                     THEN "raised" ELSE "returned"]
          /\ workers' = [workers EXCEPT ![w].pc = "idle",
                ![w].outcome = IF send(d, value, tsdb_ok, failing).raised
                               THEN "raised" ELSE "returned"]
    /\ UNCHANGED <<status, management_ip, is_healthy,
                   AUTO_CLEAR_MANAGEMENT_IP, saved, decision, availability>>

WorkerSave == \E w \in Workers : WorkerSaveStatus(w)

WorkerSend == \E w \in Workers : WorkerSendSignal(w)

NextStatements ==
    \/ WorkerStart
    \/ WorkerGet
    \/ WorkerCreate
    \/ WorkerScan
    \/ WorkerSave
    \/ WorkerSend

SpecStatements == Init /\ [][NextStatements]_vars

\* -------------------------------------------- WAN link observations
\* a raw link-up / link-down observation of an interface is recorded
RecordWanLinkStatus ==
    \E d \in Devices : \E ifname \in Interfaces : \E is_up \in IsUpValues :
    \E tsdb_ok \in BOOLEAN :
        LET call == record_wan_link_status(d, ifname, is_up, tsdb_ok) IN
        /\ Len(events) < MaxWan
        /\ events' = call.store
        /\ last' = [NoCall EXCEPT !.op = "record_wan_link_status",
                       !.dev = d, !.tsdb_ok = tsdb_ok,
                       !.points = Len(events') - Len(events),
                       !.outcome = IF call.raised THEN "raised"
                                   ELSE "returned",
                       !.wan = [ifname |-> ifname, is_up |-> is_up]]
        /\ UNCHANGED <<status, management_ip, is_healthy,
                       AUTO_CLEAR_MANAGEMENT_IP, sent, saved, workers,
                       decision, availability>>

NextWan ==
    \/ RecordWanLinkStatus

SpecWan == Init /\ [][NextWan]_vars

\* ------------------------------------------ update_status on a held record
\* a value that is not a choice of the status field
InvalidStatus == "invalid"

\* full_clean() that validates nothing
full_clean_absent(value) == TRUE

\* self.full_clean(): the status field accepts its choices only; FALSE
\* stands for the ValidationError
full_clean(value) == value \in STATUS

\* the caller that keeps one loaded DeviceMonitoring instance
Holder == CHOOSE w \in Workers : TRUE

\* the prev field of a call made on the held instance now: the in-memory
\* status the instance had before the previous call, when that call failed
\* validation
prev_failed ==
    IF last.op = "held_update_status" /\ last.outcome = "invalid"
    THEN [old |-> last.old, notified |-> last.notified]
    ELSE NoPrev

\* monitoring = device.monitoring: the instance is loaded from the table
InstanceLoad ==
    \E d \in Devices :
        /\ workers[Holder].pc = "idle"
        /\ status[d] # NoRecord
        /\ workers' = [workers EXCEPT ![Holder] =
              [IdleWorker EXCEPT !.pc = "held", !.dev = d,
                                 !.monitoring = status[d]]]
        /\ UNCHANGED <<status, management_ip, is_healthy,
                       AUTO_CLEAR_MANAGEMENT_IP, events, sent, saved, last,
                       decision, availability>>

\* monitoring.update_status(value) on the held instance, for any value:
\* self.status is assigned before full_clean() runs, and the instance keeps
\* the assignment when full_clean() raises
InstanceUpdateStatus ==
    LET d == workers[Holder].dev
        self_status == workers[Holder].monitoring
    IN
    /\ workers[Holder].pc = "held"
    /\ TotalSent < MaxSent
    /\ \E value \in STATUS \cup {InvalidStatus} : \E tsdb_ok \in BOOLEAN :
       \E failing \in Failing(self_status, value) :
          IF self_status # value /\ ~full_clean(value)
          THEN /\ workers' = [workers EXCEPT ![Holder].monitoring = value,
                                             ![Holder].outcome = "invalid"]
               /\ last' = [NoCall EXCEPT !.op = "held_update_status",
                              !.dev = d, !.value = value, !.old = self_status,
                              !.ip_before = management_ip[d],
                              !.outcome = "invalid", !.prev = prev_failed]
               /\ UNCHANGED <<status, management_ip, events, sent, saved>>
          ELSE /\ update_status(d, self_status, value, tsdb_ok, status)
               /\ workers' = [workers EXCEPT ![Holder].monitoring = value,
                     ![Holder].outcome = update_status_outcome(d, self_status,
                                             value, tsdb_ok, failing)]
               /\ last' = call_record("held_update_status", d, value,
                                      self_status, tsdb_ok, failing,
                                      prev_failed)
    /\ UNCHANGED <<is_healthy, AUTO_CLEAR_MANAGEMENT_IP, decision,
                   availability>>

NextInstance ==
    \/ InstanceLoad
    \/ InstanceUpdateStatus

SpecInstance == Init /\ [][NextInstance]_vars

\* ------------------------------------------------ the decision on its own
\* threshold_crossed's decision for one device with the metrics
\* DecideMetrics: any health of each metric, any triggering metric (whose
\* health is the one just saved), any order of the query's rows
DecideThreshold ==
    \E h \in [DecideMetrics -> BOOLEAN] : \E metric \in DecideMetrics :
    \E rows \in Orderings(unhealthy(DecideMetrics, h)) :
        /\ decision' = [metric |-> metric, healthy |-> h[metric], rows |-> rows,
                        value |-> threshold_decision(metric, h[metric], rows)]
        /\ UNCHANGED <<status, management_ip, is_healthy,
                       AUTO_CLEAR_MANAGEMENT_IP, events, sent, saved, last,
                       workers, availability>>

NextDecide ==
    \/ DecideThreshold

SpecDecide == Init /\ [][NextDecide]_vars

\* ------------------------------------------------- availability queries
\* One query is asked of a store holding any history of the device, in any
\* window, under either time zone.  The functions read the store and change
\* nothing, so a second query would add no behaviour.
\* what a call of get_device_availability leaves in availability
availability_call(points, tz, start_dt, end_dt, include_uptime, max_events, override_end_status, failing_read) ==
    [NoQuery EXCEPT !.op = "get_device_availability",
        !.points = points, !.tz = tz,
        !.start = start_dt, !.end = end_dt,
        !.include_uptime = include_uptime,
        !.max_events = max_events,
        !.override_end_status = override_end_status,
        !.failing_read = failing_read,
        !.result = get_device_availability(points, tz, start_dt, end_dt,
                       include_uptime, max_events, override_end_status,
                       failing_read)]

GetDeviceAvailability ==
    /\ availability = NoQuery
    /\ \E points \in Histories : \E tz \in TimeZones :
       \E start_dt \in Ticks : \E end_dt \in Ticks :
       \E include_uptime \in BOOLEAN : \E max_events \in MaxEventsChoices :
       \E override_end_status \in Overrides :
       \E failing_read \in FailingReads(start_dt, end_dt, include_uptime) :
          availability' = availability_call(points, tz, start_dt, end_dt,
                             include_uptime, max_events, override_end_status,
                             failing_read)
    /\ UNCHANGED <<status, management_ip, is_healthy,
                   AUTO_CLEAR_MANAGEMENT_IP, events, sent, saved, last,
                   workers, decision>>

\* instants of a period twice as long
LongTicks == 0..(2 * MaxTick)

\* the same query over the longer period, for a device whose store holds a
\* single point
GetDeviceAvailabilitySinglePoint ==
    /\ availability = NoQuery
    /\ \E f \in LongTicks : \E up \in {0, 1} : \E tz \in TimeZones :
       \E start_dt \in LongTicks : \E end_dt \in LongTicks :
       \E include_uptime \in BOOLEAN : \E max_events \in MaxEventsChoices :
       \E override_end_status \in Overrides :
       \E failing_read \in FailingReads(start_dt, end_dt, include_uptime) :
          availability' = availability_call(<<[time |-> f, up |-> up]>>, tz,
                             start_dt, end_dt, include_uptime, max_events,
                             override_end_status, failing_read)
    /\ UNCHANGED <<status, management_ip, is_healthy,
                   AUTO_CLEAR_MANAGEMENT_IP, events, sent, saved, last,
                   workers, decision>>

\* uptime_pct_for_window / uptime_percentages_for_common_windows
UptimePctFromEvents ==
    /\ availability = NoQuery
    /\ \E points \in Histories : \E start_dt \in Ticks : \E end_dt \in Ticks :
       \E failing_read \in FailingReads(start_dt, end_dt, TRUE)
                              \ { PrimaryReads[i] : i \in DOMAIN PrimaryReads } :
          availability' =
              [NoQuery EXCEPT !.op = "_uptime_pct_from_events",
                  !.points = points, !.start = start_dt, !.end = end_dt,
                  !.failing_read = failing_read,
                  !.uptime = IF failing_read # NoRead THEN Absent
                             ELSE Number(_uptime_pct_from_events(points,
                                             start_dt, end_dt)),
                  !.uptime_queries =
                      IF failing_read # NoRead
                      THEN Position(UptimeReads, failing_read)
                      ELSE uptime_queries(start_dt, end_dt),
                  !.uptime_raised = (failing_read # NoRead)]
    /\ UNCHANGED <<status, management_ip, is_healthy,
                   AUTO_CLEAR_MANAGEMENT_IP, events, sent, saved, last,
                   workers, decision>>

NextAvailability ==
    \/ GetDeviceAvailability
    \/ GetDeviceAvailabilitySinglePoint
    \/ UptimePctFromEvents

\* the device has its monitoring record; the queries read the store only
InitAvailability ==
    /\ Init
    /\ status = [d \in Devices |-> DefaultStatus]
    /\ AUTO_CLEAR_MANAGEMENT_IP

SpecAvailability == InitAvailability /\ [][NextAvailability]_vars

\* ------------------------------------------------------------------ claims

\* C1: for every triggering-metric health, triggering-metric criticality and
\* set of unhealthy related metrics, the status threshold_crossed passes to
\* update_status is critical if the triggering metric is unhealthy and
\* critical or any unhealthy related metric is critical; otherwise problem if
\* the triggering metric is unhealthy or some related metric is unhealthy;
\* otherwise ok.  It is never unknown or deactivated.
C1_DecisionTable ==
    decision # NoDecision =>
        LET related == { decision.rows[i] : i \in DOMAIN decision.rows }
            own_critical == decision.metric \in CRITICAL_DEVICE_METRICS
            any_critical == \E r \in related : r \in CRITICAL_DEVICE_METRICS
        IN  /\ decision.value =
                 IF (~decision.healthy /\ own_critical) \/ any_critical
                 THEN "critical"
                 ELSE IF ~decision.healthy \/ related # {} THEN "problem"
                 ELSE "ok"
            /\ decision.value \notin {"unknown", "deactivated"}

\* a healthy triggering metric with three unhealthy related metrics, none of
\* them critical, was decided problem
C1_Witness ==
    /\ decision # NoDecision
    /\ decision.healthy
    /\ Len(decision.rows) = 3
    /\ \A i \in DOMAIN decision.rows :
          decision.rows[i] \notin CRITICAL_DEVICE_METRICS
    /\ decision.value = "problem"

\* C2: priority law: a healthy triggering metric and at least one unhealthy
\* related metric classified critical give critical, however many
\* non-critical unhealthy related metrics there are and in whatever order
\* the unhealthy related metrics are scanned.
C2_PriorityLaw ==
    ( /\ decision # NoDecision
      /\ decision.healthy
      /\ \E i \in DOMAIN decision.rows :
            decision.rows[i] \in CRITICAL_DEVICE_METRICS )
    => decision.value = "critical"

\* the critical metric was scanned first, two non-critical unhealthy metrics
\* after it, and the decision was critical
C2_Witness ==
    /\ decision # NoDecision
    /\ decision.healthy
    /\ Len(decision.rows) = 3
    /\ decision.rows[1] \in CRITICAL_DEVICE_METRICS
    /\ decision.rows[3] \notin CRITICAL_DEVICE_METRICS
    /\ decision.value = "critical"

\* C3: concurrent threshold_crossed evaluations of one device are
\* serialized: once two workers that evaluated two different metrics of the
\* device have both finished, the stored status is the decision computed
\* from the final health of all its metrics.
C3_SerializedEvaluations ==
    \A d \in Devices : \A v, w \in Workers :
        ( /\ v # w
          /\ workers[v].pc = "idle" /\ workers[w].pc = "idle"
          /\ workers[v].dev = d /\ workers[w].dev = d
          /\ workers[v].outcome = "returned" /\ workers[w].outcome = "returned"
          /\ workers[v].metric # workers[w].metric )
        => status[d] =
             IF \E m \in MetricsOf(d) :
                   ~is_healthy[d][m] /\ m \in CRITICAL_DEVICE_METRICS
             THEN "critical"
             ELSE IF \E m \in MetricsOf(d) : ~is_healthy[d][m] THEN "problem"
             ELSE "ok"

\* C4 as stated: update_status(S) called twice in a row sends exactly one
\* status-change notification in total, and the second call is a no-op.
C4_ExactlyOneNotification ==
    (last.op = "update_status" /\ last.prev # NoPrev) =>
        /\ last.prev.notified + last.notified = 1
        /\ last.notified = 0 /\ last.saves = 0 /\ last.points = 0

\* C4 (amended): update_status(S) called twice in a row sends at most one
\* notification in total: one when the status differed from S before the
\* first call, none when it already was S; the second call is a no-op and
\* the stored status is S.
C4_SecondCallIsNoOp ==
    (last.op = "update_status" /\ last.prev # NoPrev) =>
        /\ last.notified = 0 /\ last.saves = 0 /\ last.points = 0
        /\ status[last.dev] = last.value
        /\ last.old = last.value
        /\ last.prev.notified = IF last.prev.old = last.value THEN 0 ELSE 1

\* the first of two equal calls changed the status and notified, the second
\* sent nothing
C4_Witness ==
    /\ last.op = "update_status"
    /\ last.prev # NoPrev
    /\ last.prev.notified = 1
    /\ last.notified = 0
    /\ sent[last.dev] >= 1

\* C5: update_status called with the current status changes nothing: the
\* record is not saved, no notification is sent, no availability point is
\* appended and the management address is left as it was.
C5_NoOpFrame ==
    (last.op = "update_status" /\ last.value = last.old) =>
        /\ status[last.dev] = last.old
        /\ last.saves = 0
        /\ last.notified = 0
        /\ last.points = 0
        /\ management_ip[last.dev] = last.ip_before

\* update_status("critical") ran on a critical device whose management
\* address had been learned again, with the auto-clear setting on
C5_Witness ==
    /\ last.op = "update_status"
    /\ last.value = "critical" /\ last.old = "critical"
    /\ AUTO_CLEAR_MANAGEMENT_IP
    /\ management_ip[last.dev] = IpSet
    /\ sent[last.dev] >= 1

\* C6: every change of a device's stored status, whether by update_status,
\* a deactivation, an activation or otherwise, appends exactly one
\* availability point (when the store accepts the write), and no point is
\* appended when the stored status does not change.
C6_EveryTransitionRecorded ==
    ( /\ last.op \in {"threshold_crossed", "update_status", "critical_metric",
                    "deactivate", "activate"}
      /\ last.dev \in Devices
      /\ last.tsdb_ok )
    =>
        last.points = IF status[last.dev] # last.old THEN 1 ELSE 0

\* C7: a failed time-series write on a status change does not propagate:
\* update_status has saved the new status, returns normally, and the stored
\* status is the new one.
C7_StoreFailureSwallowed ==
    ( /\ last.op \in {"update_status", "threshold_crossed", "critical_metric"}
      /\ last.value # "none"
      /\ last.value # last.old
      /\ ~last.tsdb_ok
      /\ last.failing = {} )
    => /\ last.outcome = "returned"
       /\ last.saves = 1
       /\ status[last.dev] = last.value

\* update_status changed the status while the store rejected the write
C7_Witness ==
    /\ last.op = "update_status"
    /\ ~last.tsdb_ok
    /\ last.value # last.old
    /\ last.notified = 1
    /\ last.points = 0
    /\ status[last.dev] = last.value

\* C8: the point recorded for a status change has up = 1 exactly when the
\* new status is ok or problem, and up = 0 when it is critical, unknown or
\* deactivated.
C8_UpMapping ==
    (last.points = 1) =>
        LET point == events[Len(events)] IN
        /\ point.pk = last.dev
        /\ last.value \in {"ok", "problem"} => point.up = 1
        /\ last.value \in {"critical", "unknown", "deactivated"} => point.up = 0
        /\ point.up \in {0, 1}

\* a change to problem was recorded as up
C8_Witness ==
    /\ last.points = 1
    /\ last.value = "problem"
    /\ events[Len(events)].up = 1

\* C9: convergence: after a threshold_crossed evaluation the device's status
\* is a function of the metrics' health alone, so evaluations run one after
\* another in any order on a fixed health assignment end in the same
\* status, whatever the status was before.
C9_Convergence ==
    (last.op = "threshold_crossed" /\ last.dev \in Devices) =>
        status[last.dev] =
            IF \E m \in MetricsOf(last.dev) :
                  ~is_healthy[last.dev][m] /\ m \in CRITICAL_DEVICE_METRICS
            THEN "critical"
            ELSE IF \E m \in MetricsOf(last.dev) : ~is_healthy[last.dev][m]
                 THEN "problem"
            ELSE "ok"

\* an evaluation found an ok record and left it critical while a
\* non-critical metric was unhealthy as well
C9_Witness ==
    /\ last.op = "threshold_crossed"
    /\ last.dev \in Devices
    /\ last.old = "ok"
    /\ status[last.dev] = "critical"
    /\ \E m \in MetricsOf(last.dev) :
          ~is_healthy[last.dev][m] /\ m \notin CRITICAL_DEVICE_METRICS

\* C10: once a device is deactivated, no threshold crossing and no
\* critical-check change moves it to another status.
C10_DeactivatedIsTerminal ==
    ( /\ last.op \in {"threshold_crossed", "critical_metric"}
      /\ last.dev \in Devices
      /\ last.old = "deactivated" )
    => status[last.dev] = "deactivated"
\* C11: the management address is cleared (set to None) exactly when
\* update_status changes the status from a non-critical value to critical
\* while AUTO_CLEAR_MANAGEMENT_IP is on: a call that makes this change
\* leaves the address None, and every other update_status call (a repeated
\* critical observation, a change to another status, a change to critical
\* with the setting off) leaves the address as it found it; no other
\* operation turns a set address into None.
C11_ClearedOnlyOnCriticalTransition ==
    (last.dev \in Devices) =>
        LET d == last.dev
            by_update_status ==
                /\ last.op \in {"update_status", "threshold_crossed",
                                "critical_metric"}
                /\ last.value # "none"
            into_critical ==
                /\ by_update_status
                /\ last.old # "critical"
                /\ last.value = "critical"
        IN  /\ (into_critical /\ AUTO_CLEAR_MANAGEMENT_IP)
                  => management_ip[d] = IpNone
            /\ (by_update_status /\ ~(into_critical /\ AUTO_CLEAR_MANAGEMENT_IP))
                  => management_ip[d] = last.ip_before
            /\ (management_ip[d] = IpNone /\ last.ip_before # IpNone)
                  => (into_critical /\ AUTO_CLEAR_MANAGEMENT_IP)

\* a change from ok to critical with the setting on cleared a set address
C11_Witness ==
    /\ last.op \in {"update_status", "threshold_crossed"}
    /\ last.dev \in Devices
    /\ last.old = "ok"
    /\ last.value = "critical"
    /\ AUTO_CLEAR_MANAGEMENT_IP
    /\ last.ip_before = IpSet
    /\ management_ip[last.dev] = IpNone
\* C12: a subscriber of the status-change notification that fails neither
\* rolls back the persisted status nor blocks the transition: the new
\* status stays stored, update_status completes for its caller, and every
\* other receiver of the notification is still called.
C12_SubscriberFailureIsolated ==
    ( /\ last.op \in {"update_status", "threshold_crossed", "critical_metric"}
      /\ last.value # "none"
      /\ last.value # last.old
      /\ last.failing # {} )
    => /\ status[last.dev] = last.value
       /\ last.outcome = "returned"
       /\ last.called = { Receivers[i] : i \in DOMAIN Receivers }
\* C13: for every window with start >= end, get_device_availability returns
\* normally a result with no events, no timeline intervals, no friendly
\* intervals and uptime_percent 0.0 (when the uptime is asked for, as by
\* default), and _uptime_pct_from_events returns 0.0; neither queries the
\* event store.
C13_EmptyWindow ==
    /\ ( /\ availability.op = "get_device_availability"
         /\ availability.failing_read = NoRead
         /\ availability.start >= availability.end )
       => /\ availability.result.events = <<>>
          /\ availability.result.timeline = <<>>
          /\ availability.result.friendly.intervals = <<>>
          /\ availability.include_uptime =>
                /\ availability.result.uptime_percent = Number(0)
                /\ availability.result.friendly.summary.uptime_percent
                      = Number(0)
          /\ availability.result.queries = 0
    /\ ( /\ availability.op = "_uptime_pct_from_events"
         /\ availability.failing_read = NoRead
         /\ availability.start >= availability.end )
       => /\ availability.uptime = Number(0)
          /\ availability.uptime_queries = 0

\* a window that ends before it starts was asked for a device whose
\* store holds points
C13_Witness ==
    /\ availability.op = "get_device_availability"
    /\ availability.failing_read = NoRead
    /\ availability.start > availability.end
    /\ availability.include_uptime
    /\ Len(availability.points) = MaxPoints
    /\ availability.result.timeline = <<>>
    /\ availability.result.uptime_percent = Number(0)
\* C14: for every window start < end, any history and any max_events, the
\* timeline intervals are contiguous and ordered: the first starts at start,
\* the last ends at end, each interval ends where the next starts and no
\* interval ends before it starts, so that their union is [start, end) with
\* no gap and no overlap.
C14_TimelineCoversWindow ==
    ( /\ availability.op = "get_device_availability"
      /\ availability.failing_read = NoRead
      /\ availability.start < availability.end )
    => LET timeline == availability.result.timeline
           n == Len(timeline)
       IN  /\ n >= 1
           /\ timeline[1].start =
                 _fmt_in_current_tz(availability.tz, availability.start)
           /\ timeline[n].end =
                 _fmt_in_current_tz(availability.tz, availability.end)
           /\ \A i \in 1..(n - 1) : timeline[i].end = timeline[i + 1].start
           /\ \A i \in 1..n : timeline[i].start <= timeline[i].end
\* C15: the last timeline interval's status equals the window's end-state,
\* which is the status of the synthetic end boundary: override_end_status
\* when the caller gives one, otherwise the up value of the most recent
\* point strictly before end (down when there is none).
C15_LastIntervalIsEndState ==
    ( /\ availability.op = "get_device_availability"
      /\ availability.failing_read = NoRead
      /\ availability.start < availability.end )
    => LET timeline == availability.result.timeline
           evs == availability.result.events
           points == availability.points
           before == { i \in DOMAIN points :
                          points[i].time < availability.end }
           latest == CHOOSE i \in before : \A j \in before : j <= i
           end_state ==
               IF availability.override_end_status \in {"up", "down"}
               THEN availability.override_end_status
               ELSE IF before # {} /\ points[latest].up = 1 THEN "up"
               ELSE "down"
       IN  /\ evs[Len(evs)].status = end_state
           /\ timeline[Len(timeline)].status = end_state
\* C16: when more than max_events points lie inside [start, end), the
\* reconstruction uses only the max_events most recent of them, in ascending
\* time order: the Flip events are exactly those retained points whose up
\* differs from the point before them (from the state at start, for the
\* oldest retained point), oldest first; the older in-window points produce
\* no Flip, so there are at most max_events flips.
C16_OnlyMostRecentPoints ==
    LET points == availability.points
        inside == { i \in DOMAIN points :
                       /\ points[i].time >= availability.start
                       /\ points[i].time < availability.end }
        retained == { i \in inside :
                         Cardinality({ j \in inside : j >= i })
                            <= availability.max_events }
        at_start == { i \in DOMAIN points :
                         points[i].time <= availability.start }
        state_at_start ==
            IF at_start = {} THEN 0
            ELSE points[CHOOSE i \in at_start : \A j \in at_start : j <= i].up
        flipping == { i \in retained :
                         points[i].up #
                            IF i - 1 \in retained THEN points[i - 1].up
                            ELSE state_at_start }
        evs == availability.result.events
        flips == { k \in DOMAIN evs : evs[k].type = "Flip" }
    IN  ( /\ availability.op = "get_device_availability"
          /\ availability.failing_read = NoRead
          /\ availability.start < availability.end
          /\ Cardinality(inside) > availability.max_events )
        => /\ Cardinality(flips) = Cardinality(flipping)
           /\ Cardinality(flips) <= availability.max_events
           /\ \A k \in flips :
                 \E i \in flipping :
                    /\ Cardinality({ j \in flipping : j <= i }) = k - 1
                    /\ evs[k].time = _fmt_in_current_tz(availability.tz,
                                                        points[i].time)
                    /\ evs[k].status = IF points[i].up = 1 THEN "up"
                                       ELSE "down"

\* three points inside the window, each a flip, with max_events = 1: only
\* the most recent one appears
C16_Witness ==
    /\ availability.op = "get_device_availability"
    /\ availability.failing_read = NoRead
    /\ availability.max_events = 1
    /\ Len(availability.points) = 3
    /\ availability.points[1].time >= availability.start
    /\ availability.points[3].time < availability.end
    /\ availability.points[1].up = 1
    /\ availability.points[2].up = 0
    /\ availability.points[3].up = 1
    /\ Len(availability.result.events) = 3
    /\ availability.result.events[2].type = "Flip"
    /\ availability.result.events[2].time =
          _fmt_in_current_tz(availability.tz, availability.points[3].time)
\* C17: the first timeline interval's status is the state at start: the up
\* value of the most recent point recorded at or before start, and down when
\* there is none; a point recorded exactly at start determines this state
\* and does not appear as a Flip: the flips come from points after start only.
C17_FirstIntervalIsStateAtStart ==
    LET points == availability.points
        at_start == { i \in DOMAIN points :
                         points[i].time <= availability.start }
        state_at_start ==
            IF at_start = {} THEN 0
            ELSE points[CHOOSE i \in at_start : \A j \in at_start : j <= i].up
        after == { i \in DOMAIN points :
                      /\ points[i].time > availability.start
                      /\ points[i].time < availability.end }
        evs == availability.result.events
        flips == { k \in DOMAIN evs : evs[k].type = "Flip" }
    IN  ( /\ availability.op = "get_device_availability"
          /\ availability.failing_read = NoRead
          /\ availability.start < availability.end )
        => /\ availability.result.timeline[1].status =
                 IF state_at_start = 1 THEN "up" ELSE "down"
           /\ evs[1].type = "Boundary"
           /\ Cardinality(flips) <= Cardinality(after)
           /\ (after = {}) => Len(evs) = 2

\* the device was down before the window and a point up = 1 lies exactly at
\* start, the only one in the window: one interval, up, and no Flip
C17_Witness ==
    /\ availability.op = "get_device_availability"
    /\ availability.failing_read = NoRead
    /\ availability.start < availability.end
    /\ Len(availability.points) = 2
    /\ availability.points[1].time < availability.start
    /\ availability.points[1].up = 0
    /\ availability.points[2].time = availability.start
    /\ availability.points[2].up = 1
    /\ Len(availability.result.timeline) = 1
    /\ availability.result.timeline[1].status = "up"
\* C18 as stated: when no point recorded inside [start, end) differs in up
\* from the point recorded immediately before it, the timeline has exactly
\* one interval, [start, end), whose status is the state at start.
C18_NoFlipSingleInterval ==
    LET points == availability.points
        inside == { i \in DOMAIN points :
                       /\ points[i].time >= availability.start
                       /\ points[i].time < availability.end }
        at_start == { i \in DOMAIN points :
                         points[i].time <= availability.start }
        state_at_start ==
            IF at_start = {} THEN 0
            ELSE points[CHOOSE i \in at_start : \A j \in at_start : j <= i].up
    IN  ( /\ availability.op = "get_device_availability"
          /\ availability.failing_read = NoRead
          /\ availability.start < availability.end
          /\ \A i \in inside : i > 1 => points[i].up = points[i - 1].up )
        => availability.result.timeline =
              <<[start |-> availability.result.window.start,
                 end |-> availability.result.window.end,
                 status |-> IF state_at_start = 1 THEN "up" ELSE "down"]>>

\* C18 (amended): when no point recorded inside [start, end) differs in up
\* from the point recorded immediately before it, a point that has none
\* before it being compared with down, the timeline has exactly one
\* interval, [start, end), whose status is the state at start.
C18_NoFlipFromDownSingleInterval ==
    LET points == availability.points
        inside == { i \in DOMAIN points :
                       /\ points[i].time >= availability.start
                       /\ points[i].time < availability.end }
        at_start == { i \in DOMAIN points :
                         points[i].time <= availability.start }
        state_at_start ==
            IF at_start = {} THEN 0
            ELSE points[CHOOSE i \in at_start : \A j \in at_start : j <= i].up
    IN  ( /\ availability.op = "get_device_availability"
          /\ availability.failing_read = NoRead
          /\ availability.start < availability.end
          /\ \A i \in inside :
                points[i].up = IF i > 1 THEN points[i - 1].up ELSE 0 )
        => availability.result.timeline =
              <<[start |-> availability.result.window.start,
                 end |-> availability.result.window.end,
                 status |-> IF state_at_start = 1 THEN "up" ELSE "down"]>>

\* the device went up before the window and was recorded up twice more
\* inside it: one interval, up
C18_Witness ==
    /\ availability.op = "get_device_availability"
    /\ availability.failing_read = NoRead
    /\ Len(availability.points) = 3
    /\ availability.points[1].time < availability.start
    /\ availability.points[2].time > availability.start
    /\ availability.points[3].time < availability.end
    /\ \A i \in 1..3 : availability.points[i].up = 1
    /\ Len(availability.result.timeline) = 1
    /\ availability.result.timeline[1].status = "up"
\* C19: for every history and window the uptime percentage returned, by
\* get_device_availability and by _uptime_pct_from_events alike, is a number
\* in [0.0, 100.0] rounded to 2 decimals: the hundredth nearest to the share
\* of the window, between none and all of it, that some up-time takes.
C19_UptimeInRange ==
    LET total == availability.end - availability.start
        in_range(value) ==
            /\ value.kind = "number"
            /\ value.hundredths \in 0..10000
            /\ (total > 0) =>
                  \E up \in 0..total :
                     /\ 2 * (value.hundredths * total - 10000 * up) <= total
                     /\ 2 * (10000 * up - value.hundredths * total) <= total
    IN  /\ ( /\ availability.op = "get_device_availability"
             /\ availability.failing_read = NoRead
             /\ availability.include_uptime )
           => /\ in_range(availability.result.uptime_percent)
              /\ availability.result.friendly.summary.uptime_percent
                    = availability.result.uptime_percent
        /\ ( /\ availability.op = "_uptime_pct_from_events"
             /\ availability.failing_read = NoRead )
           => in_range(availability.uptime)

\* a third of a window was up-time: 33.33
C19_Witness ==
    /\ availability.op = "get_device_availability"
    /\ availability.failing_read = NoRead
    /\ availability.include_uptime
    /\ availability.end - availability.start = 3
    /\ Len(availability.points) = MaxPoints
    /\ availability.result.uptime_percent = Number(3333)
\* C20: for a device with no point before the window and a single point
\* up = 1 at f, start < f < end, the timeline is exactly two intervals,
\* [start, f) down and [f, end) up, and uptime_percent is
\* (end - f) / (end - start) * 100 rounded to 2 decimals (83.33 for
\* f = start + 10 s and end = start + 60 s).
C20_SingleFlipScenario ==
    LET points == availability.points
        result == availability.result
        total == availability.end - availability.start
        up == availability.end - points[1].time
        f == _fmt_in_current_tz(availability.tz, points[1].time)
    IN  ( /\ availability.op = "get_device_availability"
          /\ availability.failing_read = NoRead
          /\ Len(points) = 1
          /\ points[1].up = 1
          /\ availability.start < points[1].time
          /\ points[1].time < availability.end )
        => /\ result.timeline =
                 <<[start |-> result.window.start, end |-> f,
                    status |-> "down"],
                   [start |-> f, end |-> result.window.end,
                    status |-> "up"]>>
           /\ availability.include_uptime =>
                 /\ result.uptime_percent.kind = "number"
                 /\ 2 * (result.uptime_percent.hundredths * total
                            - 10000 * up) <= total
                 /\ 2 * (10000 * up
                            - result.uptime_percent.hundredths * total) <= total

\* the point lies a sixth of the window after start: 83.33
C20_Witness ==
    /\ availability.op = "get_device_availability"
    /\ availability.failing_read = NoRead
    /\ availability.include_uptime
    /\ Len(availability.points) = 1
    /\ availability.points[1].up = 1
    /\ availability.points[1].time > availability.start
    /\ availability.end - availability.start
          = 6 * (availability.points[1].time - availability.start)
    /\ Len(availability.result.timeline) = 2
    /\ availability.result.uptime_percent = Number(8333)
\* C21: a failure of a read of the primary timeline (state at start,
\* in-window points, latest state) leaves get_device_availability as an
\* exception: the caller gets no result, not a partial one, and the reads
\* after the failing one are not made
C21_PrimaryReadFailurePropagates ==
    ( /\ availability.op = "get_device_availability"
      /\ InReads(PrimaryReads, availability.failing_read) )
       => /\ availability.result.raised
          /\ availability.result.window.start = NoTime
          /\ availability.result.events = <<>>
          /\ availability.result.timeline = <<>>
          /\ availability.result.friendly.intervals = <<>>
          /\ availability.result.uptime_percent = Absent
          /\ availability.result.queries
                = Position(PrimaryReads, availability.failing_read)

\* the read of the latest state failed after the two reads before it had
\* returned points
C21_Witness ==
    /\ availability.op = "get_device_availability"
    /\ availability.failing_read = "q_latest"
    /\ q_prev(availability.points, availability.start) # <<>>
    /\ q_events(availability.points, availability.start, availability.end,
                availability.max_events) # <<>>
    /\ availability.result.raised

\* C22: a failure inside the uptime computation is caught: the call returns
\* the events, timeline and friendly summary of the primary reads, with
\* uptime_percent null at top level and in the summary
C22_UptimeFailureCaught ==
    ( /\ availability.op = "get_device_availability"
      /\ availability.include_uptime
      /\ InReads(UptimeReads, availability.failing_read) )
       => LET r == availability.result
              unfailed ==
                  get_device_availability(availability.points,
                      availability.tz, availability.start, availability.end,
                      availability.include_uptime, availability.max_events,
                      availability.override_end_status, NoRead)
          IN  /\ ~r.raised
              /\ r.uptime_percent = NoneValue
              /\ r.friendly.summary.uptime_percent = NoneValue
              /\ r.window = unfailed.window
              /\ r.events = unfailed.events
              /\ r.timeline = unfailed.timeline
              /\ r.friendly.intervals = unfailed.friendly.intervals
              /\ r.friendly.summary.total_uptime
                    = unfailed.friendly.summary.total_uptime
              /\ r.friendly.summary.total_downtime
                    = unfailed.friendly.summary.total_downtime
              /\ r.friendly.summary.longest_outage
                    = unfailed.friendly.summary.longest_outage

\* the second read of the uptime scan failed for a window with a flip
C22_Witness ==
    /\ availability.op = "get_device_availability"
    /\ availability.include_uptime
    /\ availability.failing_read = "uptime_q_events"
    /\ Len(availability.result.events) = 3
    /\ Len(availability.result.timeline) = 2
    /\ availability.result.uptime_percent = NoneValue
\* C23: for a device with no recorded events and a window start < end,
\* get_device_availability returns, without error, a window that is entirely
\* down: one down interval equal to [start, end), both boundaries down,
\* total uptime zero and uptime_percent 0.0
C23_NoDataAllDown ==
    ( /\ availability.op = "get_device_availability"
      /\ availability.failing_read = NoRead
      /\ availability.points = <<>>
      /\ availability.start < availability.end )
       => LET r == availability.result
          IN  /\ ~r.raised
              /\ Len(r.timeline) = 1
              /\ r.timeline[1].status = "down"
              /\ r.timeline[1].start =
                    _fmt_in_current_tz(availability.tz, availability.start)
              /\ r.timeline[1].end =
                    _fmt_in_current_tz(availability.tz, availability.end)
              /\ Len(r.events) = 2
              /\ \A i \in DOMAIN r.events :
                    /\ r.events[i].type = "Boundary"
                    /\ r.events[i].status = "down"
              /\ r.friendly.summary.total_uptime = "0s"
              /\ availability.include_uptime =>
                    r.uptime_percent = Number(0)
\* C24: the explicit deactivate operation leaves the device deactivated
\* whatever its status was, the explicit activate operation leaves it
\* unknown whatever its status was (a device without a status record counts
\* as unknown), and neither changes the status of another device
C24_ExplicitTransitions ==
    [][ \A d \in Devices :
          LET effective(s) == IF s = NoRecord THEN DefaultStatus ELSE s
          IN  /\ handle_deactivated_device(d) =>
                    /\ effective(status'[d]) = "deactivated"
                    /\ \A o \in Devices \ {d} : status'[o] = status[o]
              /\ handle_activated_device(d) =>
                    /\ effective(status'[d]) = "unknown"
                    /\ \A o \in Devices \ {d} : status'[o] = status[o] ]_vars
\* C25: each device has at most one status record, whose value is one of the
\* five statuses, also when two workers handle the first threshold crossing
\* of a device without a record at the same time: of the workers that found
\* no record, one inserts the row and the insert of the other is rejected
C25_OneRecordPerDevice ==
    \A d \in Devices :
        LET inserted == { w \in Workers :
                            workers[w].dev = d /\ workers[w].created }
        IN  /\ Cardinality(inserted) <= 1
            /\ (inserted # {}) => status[d] # NoRecord
            /\ status[d] \in STATUS \cup {NoRecord}
            /\ \A w \in Workers :
                  (workers[w].dev = d /\ workers[w].pc \in {"scan", "update"})
                     => workers[w].monitoring \in STATUS

\* both workers found no record of the device; one inserted it and the
\* insert of the other was rejected
C25_Witness ==
    \E d \in Devices : \E v, w \in Workers :
        /\ v # w
        /\ workers[v].dev = d /\ workers[v].created
        /\ workers[w].dev = d /\ ~workers[w].created
        /\ workers[w].pc = "idle" /\ workers[w].outcome = "raised"
        /\ status[d] \in STATUS
\* C26: for each device the number of status-change notifications emitted
\* equals the number of times the stored status changed value, also when two
\* workers hold their own copies of the record and call update_status with
\* the same new status: every step emits one notification when it changes
\* the stored value and none when it does not (a record created as unknown
\* is not a change of value)
C26_NotificationsMatchChanges ==
    [][ \A d \in Devices :
          LET effective(s) == IF s = NoRecord THEN DefaultStatus ELSE s
          IN  sent'[d] - sent[d] =
                 IF effective(status'[d]) # effective(status[d]) THEN 1
                 ELSE 0 ]_vars
\* C27: when the window holds no more than max_events recorded points and
\* the window bounds and the point times are whole seconds, the
\* uptime_percent returned by get_device_availability equals 100 times the
\* summed duration of the timeline's up intervals divided by the window
\* length, rounded to 2 decimals
C27_UptimeAgreesWithTimeline ==
    LET whole(t) == t % TicksPerSecond = 0
        points == availability.points
        in_window == { i \in DOMAIN points :
                         /\ points[i].time >= availability.start
                         /\ points[i].time < availability.end }
        timeline == availability.result.timeline
        up_index == { i \in DOMAIN timeline : timeline[i].status = "up" }
        up_duration == [i \in DOMAIN timeline |->
                           timeline[i].end - timeline[i].start]
        window_length ==
            (availability.end - availability.start) \div TicksPerSecond
    IN  ( /\ availability.op = "get_device_availability"
          /\ availability.failing_read = NoRead
          /\ availability.include_uptime
          /\ availability.start < availability.end
          /\ whole(availability.start) /\ whole(availability.end)
          /\ \A i \in DOMAIN points : whole(points[i].time)
          /\ Cardinality(in_window) <= availability.max_events )
        => availability.result.uptime_percent =
              Number(round_percent(SumOver(up_duration, up_index),
                                   window_length))
\* C28: a Flip event is emitted only for an in-window point whose up value
\* differs from the running current value: in the returned events the first
\* and the last are the boundaries, every event between them is a Flip
\* whose status differs from the event before it, and there are as many
\* Flips as retained points that differ from the point before them (from
\* the state at start, for the first), so a repeated up value gives no event
C28_FlipOnlyOnChange ==
    ( /\ availability.op = "get_device_availability"
      /\ availability.failing_read = NoRead
      /\ availability.start < availability.end )
    => LET evs == availability.result.events
           n == Len(evs)
           prev == q_prev(availability.points, availability.start)
           rows == Reverse(q_events(availability.points, availability.start,
                                    availability.end, availability.max_events))
           before(i) == IF i = 1
                        THEN (IF prev # <<>> THEN prev[1].up ELSE 0)
                        ELSE rows[i - 1].up
           changes == { i \in DOMAIN rows : rows[i].up # before(i) }
       IN  /\ n >= 2
           /\ evs[1].type = "Boundary" /\ evs[n].type = "Boundary"
           /\ \A i \in 2..(n - 1) :
                 /\ evs[i].type = "Flip"
                 /\ ~evs[i].synthetic
                 /\ evs[i].status # evs[i - 1].status
           /\ n - 2 = Cardinality(changes)

\* three points in the window, the second repeating the up value of the
\* first: two Flips
C28_Witness ==
    /\ availability.op = "get_device_availability"
    /\ availability.failing_read = NoRead
    /\ Len(q_events(availability.points, availability.start,
                    availability.end, availability.max_events)) = 3
    /\ availability.points[1].up = availability.points[2].up
    /\ availability.points[2].up # availability.points[3].up
    /\ Len(availability.result.events) = 4
\* C29 as stated: the uptime scan credits every instant of [start, end) to
\* the state in force at it (the up value of the latest point at or before
\* it, down when there is none) and returns exactly the up-credited time
\* divided by the window length, times 100
C29_UptimeScanExact ==
    ( /\ availability.op = "_uptime_pct_from_events"
      /\ availability.failing_read = NoRead
      /\ availability.start < availability.end )
    => LET points == availability.points
           in_force(u) ==
               LET known == { i \in DOMAIN points : points[i].time <= u }
               IN  IF known = {} THEN 0
                   ELSE points[CHOOSE i \in known : \A j \in known : j <= i].up
           up_time == Cardinality({ u \in availability.start
                                            ..(availability.end - 1) :
                                       in_force(u) = 1 })
           total == availability.end - availability.start
       IN  /\ availability.uptime.kind = "number"
           /\ availability.uptime.hundredths * total = 10000 * up_time

\* C29 (amended): the uptime scan credits every instant of [start, end) to
\* the state in force at it: each sub-interval between consecutive in-window
\* points to the state before the later point, starting from the state at
\* start, and the final segment to the state set by the last point; it
\* returns the up-credited time divided by the window length, times 100,
\* rounded to 2 decimals
C29_UptimeScanRounded ==
    ( /\ availability.op = "_uptime_pct_from_events"
      /\ availability.failing_read = NoRead
      /\ availability.start < availability.end )
    => LET points == availability.points
           in_force(u) ==
               LET known == { i \in DOMAIN points : points[i].time <= u }
               IN  IF known = {} THEN 0
                   ELSE points[CHOOSE i \in known : \A j \in known : j <= i].up
           up_time == Cardinality({ u \in availability.start
                                            ..(availability.end - 1) :
                                       in_force(u) = 1 })
           total == availability.end - availability.start
       IN  availability.uptime = Number(round_percent(up_time, total))

\* up, down, up inside the window: the sub-interval after the first point
\* and the final segment are credited up, the other two down
C29_Witness ==
    /\ availability.op = "_uptime_pct_from_events"
    /\ availability.failing_read = NoRead
    /\ Len(availability.points) = 3
    /\ availability.start < availability.points[1].time
    /\ availability.points[3].time < availability.end
    /\ availability.points[1].up = 1
    /\ availability.points[2].up = 0
    /\ availability.points[3].up = 1
    /\ availability.uptime = Number(5000)
\* C30: in the reconstructed timeline the state changes only at Flip
\* events: the synthetic start boundary carries the state at start (the up
\* value of the latest point at or before start, down when there is none)
\* and the synthetic end boundary carries the status of the event
\* immediately before it
C30_BoundariesChangeNothing ==
    ( /\ availability.op = "get_device_availability"
      /\ availability.failing_read = NoRead
      /\ availability.start < availability.end )
    => LET evs == availability.result.events
           n == Len(evs)
           points == availability.points
           known == { i \in DOMAIN points :
                        points[i].time <= availability.start }
           at_start == IF known = {} THEN 0
                       ELSE points[CHOOSE i \in known :
                                      \A j \in known : j <= i].up
       IN  /\ evs[1].type = "Boundary" /\ evs[1].synthetic
           /\ evs[1].status = IF at_start = 1 THEN "up" ELSE "down"
           /\ evs[n].type = "Boundary" /\ evs[n].synthetic
           /\ evs[n].status = evs[n - 1].status
\* C31: the synthetic end boundary's status is override_end_status when the
\* caller gives 'up' or 'down'; otherwise it is the up value of the most
\* recent point recorded strictly before end (a point at exactly end is
\* ignored), and the state at start when no point lies before end
C31_EndBoundaryStatus ==
    ( /\ availability.op = "get_device_availability"
      /\ availability.failing_read = NoRead
      /\ availability.start < availability.end )
    => LET evs == availability.result.events
           points == availability.points
           label(up) == IF up = 1 THEN "up" ELSE "down"
           earlier == { p \in Rows(points) : p.time < availability.end }
           most_recent == CHOOSE p \in earlier :
                              \A q \in earlier : q.time <= p.time
       IN  evs[Len(evs)].status =
              IF availability.override_end_status = "up" THEN "up"
              ELSE IF availability.override_end_status = "down" THEN "down"
              ELSE IF earlier # {} THEN label(most_recent.up)
              ELSE evs[1].status

\* no override; a point recorded at exactly end carries another up value
\* than the most recent point before end
C31_Witness ==
    /\ availability.op = "get_device_availability"
    /\ availability.failing_read = NoRead
    /\ availability.start < availability.end
    /\ availability.override_end_status = "None"
    /\ \E i \in DOMAIN availability.points :
          /\ i > 1
          /\ availability.points[i].time = availability.end
          /\ availability.points[i - 1].up # availability.points[i].up
          /\ availability.result.events[Len(availability.result.events)].status
                = IF availability.points[i - 1].up = 1 THEN "up" ELSE "down"
\* C32: whenever a status-change notification for status S is delivered,
\* the device's status record holds S, and the availability point written
\* for the notification is the mapping of S
C32_PersistedBeforeNotified ==
    (last.op = "send") =>
        /\ last.old = last.value
        /\ (last.points = 1) =>
              events[Len(events)] =
                 [pk |-> last.dev,
                  up |-> IF last.value \in {"ok", "problem"} THEN 1 ELSE 0]
\* C33: when no override_end_status is given (max_events >= 1, the store
\* unchanged during the query), the synthetic end boundary's status equals
\* the status of the last timeline interval, also for a history truncated
\* by max_events
C33_EndBoundaryIsLastInterval ==
    ( /\ availability.op = "get_device_availability"
      /\ availability.failing_read = NoRead
      /\ availability.start < availability.end
      /\ availability.override_end_status \notin {"up", "down"}
      /\ availability.max_events >= 1 )
    => LET evs == availability.result.events
           timeline == availability.result.timeline
       IN  /\ Len(timeline) >= 1
           /\ evs[Len(evs)].status = timeline[Len(timeline)].status

\* three points in the window and max_events = 2: the oldest is dropped
\* from the in-window rows, and both kept points are flips
C33_Witness ==
    /\ availability.op = "get_device_availability"
    /\ availability.failing_read = NoRead
    /\ availability.override_end_status = "None"
    /\ availability.max_events = 2
    /\ Len(q_events_asc(availability.points, availability.start,
                        availability.end)) = 3
    /\ availability.points[1].up = 1
    /\ availability.points[2].up = 0
    /\ availability.points[3].up = 1
    /\ Len(availability.result.timeline) = 3
\* C34: update_status called with a value that is not one of the five
\* statuses fails with a validation error and leaves the device unchanged
\* (nothing persisted, no notification), and the call that follows on the
\* same record behaves as if the failed call had never been made: it
\* notifies exactly when its value differs from the status the record had
\* before the failed call
C34_InvalidStatusRejected ==
    (last.op = "held_update_status") =>
        /\ (last.value \notin STATUS) =>
              /\ last.outcome = "invalid"
              /\ last.saves = 0 /\ last.notified = 0 /\ last.points = 0
              /\ status[last.dev] \in STATUS
        /\ (last.prev # NoPrev /\ last.value \in STATUS) =>
              /\ last.notified = IF last.prev.old # last.value THEN 1 ELSE 0
              /\ last.saves = last.notified
\* C35: the longest outage of the friendly summary is the down interval of
\* greatest duration among the stitched intervals, the earliest one when
\* several share that duration; with no down interval of positive duration
\* it is zero ("0s") with no start and no end
C35_LongestOutage ==
    ( /\ availability.op = "get_device_availability"
      /\ availability.failing_read = NoRead
      /\ availability.start < availability.end )
    => LET intervals == availability.result.friendly.intervals
           longest == availability.result.friendly.summary.longest_outage
           outages == { i \in DOMAIN intervals :
                          /\ intervals[i].status = "down"
                          /\ intervals[i].duration_seconds > 0 }
       IN  IF outages = {}
           THEN /\ longest.duration_seconds = 0
                /\ longest.duration_human = "0s"
                /\ longest.start = NoTime /\ longest.end = NoTime
           ELSE \E i \in outages :
                   /\ \A j \in outages :
                         /\ intervals[j].duration_seconds
                               <= intervals[i].duration_seconds
                         /\ (intervals[j].duration_seconds
                               = intervals[i].duration_seconds) => i <= j
                   /\ longest.duration_seconds = intervals[i].duration_seconds
                   /\ longest.duration_human = intervals[i].duration_human
                   /\ longest.start = intervals[i].start
                   /\ longest.end = intervals[i].end

\* two down intervals of the same positive duration around an up interval:
\* the first is reported
C35_Witness ==
    /\ availability.op = "get_device_availability"
    /\ availability.failing_read = NoRead
    /\ LET intervals == availability.result.friendly.intervals
           longest == availability.result.friendly.summary.longest_outage
       IN  /\ Len(intervals) = 3
           /\ intervals[1].status = "down" /\ intervals[3].status = "down"
           /\ intervals[1].duration_seconds > 0
           /\ intervals[1].duration_seconds = intervals[3].duration_seconds
           /\ longest.start = intervals[1].start
           /\ longest.end = intervals[1].end
\* C36: for every window start < end the friendly intervals' durations sum
\* to the window length: total uptime seconds plus total downtime seconds
\* equals end - start, and equals the sum of the intervals' durations
C36_DurationsSumToWindow ==
    ( /\ availability.op = "get_device_availability"
      /\ availability.failing_read = NoRead
      /\ availability.start < availability.end )
    => LET intervals == availability.result.friendly.intervals
           built == _build_friendly_intervals(availability.result.events)
           duration == [i \in DOMAIN intervals |->
                           intervals[i].duration_seconds]
           total == built.totals.uptime_seconds
                       + built.totals.downtime_seconds
       IN  /\ total = SumOver(duration, DOMAIN intervals)
           /\ total * TicksPerSecond
                 = availability.end - availability.start
\* C37: when a check whose type is a configured critical metric is
\* deactivated or deleted, the device's status becomes unknown through
\* update_status, with one notification exactly when it was not unknown
\* already (a device without a status record counts as unknown); a check of
\* another type, or a critical check saved while active, changes neither
\* the status nor the number of notifications
C37_CriticalCheckRemoved ==
    (last.op = "critical_metric") =>
        LET d == last.dev
            effective(s) == IF s = NoRecord THEN DefaultStatus ELSE s
        IN  IF /\ last.check.check_type
                     \in { m.key : m \in CRITICAL_DEVICE_METRICS }
               /\ (~last.check.is_active \/ last.check.deleted)
            THEN /\ effective(status[d]) = "unknown"
                 /\ last.notified =
                       IF effective(last.old) # "unknown" THEN 1 ELSE 0
                 /\ last.saves = last.notified
            ELSE /\ status[d] = last.old
                 /\ last.notified = 0 /\ last.saves = 0

\* the critical check of a critical device was deactivated or deleted: the
\* device went to unknown with one notification
C37_Witness ==
    /\ last.op = "critical_metric"
    /\ last.check.check_type \in { m.key : m \in CRITICAL_DEVICE_METRICS }
    /\ ~last.check.is_active
    /\ last.value = "unknown"
    /\ last.old = "critical"
    /\ last.notified = 1
    /\ status[last.dev] = "unknown"
\* C38: record_wan_link_status appends at most one wan_link_status point
\* per call, tagged with the device id and the interface name, with up = 1
\* exactly when is_up is true and up = 0 otherwise, and returns normally
\* also when the write to the store fails
C38_WanLinkRecorded ==
    (last.op = "record_wan_link_status") =>
        /\ last.outcome = "returned"
        /\ last.points = IF last.tsdb_ok THEN 1 ELSE 0
        /\ (last.points = 1) =>
              LET point == events[Len(events)]
              IN  /\ point.name = "wan_link_status"
                  /\ point.pk = last.dev
                  /\ point.ifname = last.wan.ifname
                  /\ point.up \in {0, 1}
                  /\ (point.up = 1) <=> (last.wan.is_up \in {"True", "1"})

\* the store refused the write of an observation after it had accepted
\* another: the call returned and the store holds the earlier point only
C38_Witness ==
    /\ last.op = "record_wan_link_status"
    /\ ~last.tsdb_ok
    /\ last.points = 0
    /\ last.outcome = "returned"
    /\ Len(events) = 1
    /\ events[1].up = 1
====
